---- MODULE Spec2Model ----
(***************************************************************************)
(* Model of the SigText message-signature-verification workflow:           *)
(*   - the Signature Extractor (two implementations: the private           *)
(*     parseSMSMessage of SupabaseVerificationService and the public       *)
(*     SMSService.parseSMSMessage),                                        *)
(*   - the Sender Resolver, the Remote Verifier (hosted procedure and      *)
(*     local stand-in) and the Result Persister,                           *)
(*   - the Local Cache / Offline Mirror (DataSyncService).                 *)
(*                                                                         *)
(* Strings are sequences of one-character strings, so that trimming,       *)
(* lower-casing, prefix stripping and pattern matching are computed the    *)
(* way the code computes them.  A nullable value is <<>> (null) or <<v>>.  *)
(***************************************************************************)
EXTENDS Integers, Sequences, FiniteSets, TLC

(***************************************************************************)
(* Bounds of the model.                                                    *)
(***************************************************************************)
MaxPieces == 3
MaxRows == 2
MaxInserts == 1
MaxClock == 1
MaxSyncCalls == 2
MaxTimers == 1
MaxCalls == 2

(***************************************************************************)
(* Characters and strings.                                                 *)
(***************************************************************************)
Null == <<>>
Some(v) == <<v>>

\* the element of a one-element set; { e(v) : v \in {x} } computes x once
The(S) == CHOOSE v \in S : TRUE

UpperLetters ==
    << "A","B","C","D","E","F","G","H","I","J","K","L","M",
       "N","O","P","Q","R","S","T","U","V","W","X","Y","Z" >>
LowerLetters ==
    << "a","b","c","d","e","f","g","h","i","j","k","l","m",
       "n","o","p","q","r","s","t","u","v","w","x","y","z" >>
Digits == {"0","1","2","3","4","5","6","7","8","9"}
Range(f) == {f[i] : i \in DOMAIN f}

LowerOf ==
    [c \in Range(UpperLetters) |->
        LowerLetters[CHOOSE i \in 1..26 : UpperLetters[i] = c]]
UpperOf ==
    [c \in Range(LowerLetters) |->
        UpperLetters[CHOOSE i \in 1..26 : LowerLetters[i] = c]]

ToLowerChar(c) == IF c \in DOMAIN LowerOf THEN LowerOf[c] ELSE c
ToUpperChar(c) == IF c \in DOMAIN UpperOf THEN UpperOf[c] ELSE c

\* String.prototype.toLowerCase
toLowerCase(s) == [i \in 1..Len(s) |-> ToLowerChar(s[i])]

Whitespace == {" ", "\t", "\n", "\r"}

RECURSIVE TrimStart(_)
TrimStart(s) ==
    IF s # <<>> /\ Head(s) \in Whitespace THEN TrimStart(Tail(s)) ELSE s

RECURSIVE TrimEnd(_)
TrimEnd(s) ==
    IF s # <<>> /\ s[Len(s)] \in Whitespace
    THEN TrimEnd(SubSeq(s, 1, Len(s) - 1))
    ELSE s

\* String.prototype.trim
trim(s) == TrimEnd(TrimStart(s))

\* String.prototype.startsWith
startsWith(s, p) == Len(s) >= Len(p) /\ SubSeq(s, 1, Len(p)) = p

\* s.replace(sub, ''): removes the first occurrence of the literal sub
replaceFirst(s, sub) ==
    The({ IF occ = {} \/ sub = <<>> THEN s
          ELSE The({ SubSeq(s, 1, i - 1) \o SubSeq(s, i + Len(sub), Len(s)) :
                     i \in {j \in occ : \A k \in occ : j <= k} })
          : occ \in { {i \in 1..(Len(s) - Len(sub) + 1) :
                          SubSeq(s, i, i + Len(sub) - 1) = sub} } })

\* the string of n characters c
Rep(c, n) == [i \in 1..n |-> c]

(***************************************************************************)
(* Regular expressions of the signature tags.  A pattern is a sequence of  *)
(* elements: a literal, or a run {min,max} of characters of a class        *)
(* (max = 0: unbounded).  Every run of the five patterns is followed by a  *)
(* literal whose first character is outside the run's class, so the only   *)
(* possible match takes the maximal run.  All patterns carry the i flag.   *)
(***************************************************************************)
HexClass == Digits \cup {"a","b","c","d","e","f","A","B","C","D","E","F"}
Base64Class == Digits \cup Range(UpperLetters) \cup Range(LowerLetters)
                   \cup {"+", "/", "="}
DidMethodClass == Digits \cup Range(LowerLetters)
DidIdClass == Digits \cup Range(UpperLetters) \cup Range(LowerLetters)
                   \cup {".", "_", "-"}

Lit(s) == [t |-> "lit", s |-> s, cls |-> {}, min |-> 0, max |-> 0]
Run(cls, min, max) == [t |-> "run", s |-> <<>>, cls |-> cls, min |-> min, max |-> max]

\* character comparison under the i flag
EqCI(a, b) == ToLowerChar(a) = ToLowerChar(b)
InClassCI(c, cls) == c \in cls \/ ToLowerChar(c) \in cls \/ ToUpperChar(c) \in cls

LitAt(s, p, l) ==
    /\ p + Len(l) - 1 <= Len(s)
    /\ \A k \in 1..Len(l) : EqCI(s[p + k - 1], l[k])

\* the length of the maximal run of characters of the class that starts at p
RunLen(s, p, cls) ==
    The({ IF stops = {} THEN Len(s) - p + 1
          ELSE (CHOOSE q \in stops : \A r \in stops : q <= r) - p
          : stops \in { {q \in p..Len(s) : ~InClassCI(s[q], cls)} } })

\* the end position of every element of the pattern matched at p, or <<>>
RECURSIVE MatchFrom(_, _, _, _, _)
MatchFrom(elems, k, s, p, ends) ==
    IF k > Len(elems) THEN ends
    ELSE The({ IF n < 0 \/ n < elems[k].min
                  \/ (elems[k].max # 0 /\ n > elems[k].max)
               THEN <<>>
               ELSE MatchFrom(elems, k + 1, s, p + n, Append(ends, p + n - 1))
               : n \in { IF elems[k].t = "lit"
                         THEN IF LitAt(s, p, elems[k].s) THEN Len(elems[k].s) ELSE -1
                         ELSE RunLen(s, p, elems[k].cls) } })

NoMatch == [found |-> FALSE, all |-> <<>>, g1 |-> <<>>, g2 |-> <<>>]

\* String.prototype.match with a non-global pattern: the leftmost match.
\* pat.g1 and pat.g2 give the first and last element of each capture group.
\* (Every pattern begins with a literal; only the positions that carry its
\* first character are tried.)
Group(s, i, ends, g) ==
    IF g = <<>> THEN <<>>
    ELSE SubSeq(s, IF g[1] = 1 THEN i ELSE ends[g[1] - 1] + 1, ends[g[2]])

match(s, pat) ==
    The({ IF found = {} THEN NoMatch
          ELSE The({ [found |-> TRUE,
                      all |-> SubSeq(s, m[1], m[2][Len(m[2])]),
                      g1 |-> Group(s, m[1], m[2], pat.g1),
                      g2 |-> Group(s, m[1], m[2], pat.g2)]
                     : m \in {f \in found : \A o \in found : f[1] <= o[1]} })
          : found \in { {f \in { <<i, IF EqCI(s[i], pat.elems[1].s[1])
                                       THEN MatchFrom(pat.elems, 1, s, i, <<>>)
                                       ELSE <<>> >> : i \in 1..Len(s) } :
                           f[2] # <<>>} } })

PatSIG_any ==
    [name |-> "standard_hex",
     elems |-> << Lit(<<"[","S","I","G",":">>), Run(HexClass, 1, 0), Lit(<<"]">>) >>,
     g1 |-> <<2, 2>>, g2 |-> <<>>]
PatSIG ==
    [name |-> "standard_hex",
     elems |-> << Lit(<<"[","S","I","G",":">>), Run(HexClass, 64, 0), Lit(<<"]">>) >>,
     g1 |-> <<2, 2>>, g2 |-> <<>>]
PatSIGNATURE ==
    [name |-> "base64_signature",
     elems |-> << Lit(<<"[","S","I","G","N","A","T","U","R","E",":">>),
                  Run(Base64Class, 64, 0), Lit(<<"]">>) >>,
     g1 |-> <<2, 2>>, g2 |-> <<>>]
PatWEB3SIG ==
    [name |-> "web3_signature",
     elems |-> << Lit(<<"[","W","E","B","3","S","I","G",":","0","x">>),
                  Run(HexClass, 128, 0), Lit(<<"]">>) >>,
     g1 |-> <<2, 2>>, g2 |-> <<>>]
PatDID ==
    [name |-> "did_signature",
     elems |-> << Lit(<<"[","D","I","D",":">>),
                  Lit(<<"d","i","d",":">>), Run(DidMethodClass, 1, 0),
                  Lit(<<":">>), Run(DidIdClass, 1, 0),
                  Lit(<<"#","S","I","G",":">>), Run(HexClass, 64, 0),
                  Lit(<<"]">>) >>,
     g1 |-> <<2, 5>>, g2 |-> <<7, 7>>]
PatETH ==
    [name |-> "ethereum_signature",
     elems |-> << Lit(<<"[","E","T","H",":","0","x">>),
                  Run(HexClass, 130, 130), Lit(<<"]">>) >>,
     g1 |-> <<2, 2>>, g2 |-> <<>>]

\* SMSService.signaturePatterns, in array order
SMSService_signaturePatterns == << PatSIG, PatSIGNATURE, PatWEB3SIG, PatDID, PatETH >>

\* the signaturePatterns array local to SupabaseVerificationService.parseSMSMessage
signaturePatterns == << PatSIG, PatSIGNATURE, PatWEB3SIG, PatETH, PatDID >>

\* index of the first pattern of the list that matches s, 0 if none does
FirstMatching(pats, s) ==
    The({ IF hits = {} THEN 0 ELSE CHOOSE k \in hits : \A j \in hits : k <= j
          : hits \in { {k \in 1..Len(pats) : match(s, pats[k]).found} } })

\* pattern.extractor of SMSService
extractor_noprefix(pat, m) ==
    IF pat.name = "did_signature" THEN m.g2 ELSE m.g1
extractor(pat, m) ==
    IF pat.name = "did_signature" THEN m.g2
    ELSE IF pat.name \in {"web3_signature", "ethereum_signature"}
         THEN <<"0", "x">> \o m.g1
         ELSE m.g1

\* SMSService.parseSMSMessage
SMSService_parseSMSMessage(messageText) ==
    The({ IF pat = <<>>
          THEN [extractedContent |-> messageText, signature |-> Null,
                signatureBlock |-> Null]
          ELSE The({ [extractedContent |-> trim(replaceFirst(messageText, m.all)),
                      signature |-> Some(extractor(pat[1], m)),
                      signatureBlock |-> Some(m.all)]
                     : m \in {match(messageText, pat[1])} })
          : pat \in { The({ IF k = 0 THEN <<>> ELSE <<SMSService_signaturePatterns[k]>>
                            : k \in {FirstMatching(SMSService_signaturePatterns,
                                                   messageText)} }) } })

\* SupabaseVerificationService.parseSMSMessage
parseSMSMessage(smsContent) ==
    The({ IF pat = <<>>
          THEN [content |-> smsContent, signature |-> <<>>, senderAddress |-> <<>>]
          ELSE The({ [content |-> trim(replaceFirst(smsContent, m.all)),
                      signature |->
                          IF pat[1].name = "did_signature" THEN m.g2
                          ELSE IF pat[1].name \in {"web3_signature",
                                                   "ethereum_signature"}
                               THEN <<"0", "x">> \o m.g1
                               ELSE m.g1,
                      senderAddress |->
                          IF pat[1].name = "did_signature" THEN m.g1 ELSE <<>>]
                     : m \in {match(smsContent, pat[1])} })
          : pat \in { The({ IF k = 0 THEN <<>> ELSE <<signaturePatterns[k]>>
                            : k \in {FirstMatching(signaturePatterns, smsContent)} }) } })

(***************************************************************************)
(* State.                                                                  *)
(***************************************************************************)
VARIABLES
    \* Signature Extractor: the text handed to the two parsers, their results
    smsText, parsedSvc, parsedSms,
    \* the call of generateTestSMS that composed the text, if one did
    composed,
    \* environment and hosted backend
    configured,                     \* supabaseUrl and supabaseAnonKey are set
    user,                           \* supabase.auth.getUser(): Null or Some(id)
    organizations,                  \* table organizations
    organization_wallets,           \* table organization_wallets
    verified_messages,              \* table verified_messages
    message_verification_attempts,  \* table message_verification_attempts
    \* the last call of a public verify operation: inputs, what the
    \* environment did, and the result returned to the caller
    lastCall,
    \* DataSyncService
    syncInProgress, syncInterval, timers, storage, syncCalls, fetchLog, clock,
    \* VerificationProvider: the messages state, and the calls of its
    \* functions and of the scanner's handler that have been made
    messages, calls

ExtractVars == <<smsText, parsedSvc, parsedSms, composed>>
BackendVars == <<configured, user, organizations, organization_wallets,
                 verified_messages, message_verification_attempts>>
PipeVars == <<lastCall>>
SyncVars == <<syncInProgress, syncInterval, timers, storage, syncCalls,
              fetchLog, clock>>
ContextVars == <<messages, calls>>
vars == <<ExtractVars, BackendVars, PipeVars, SyncVars, ContextVars>>

(***************************************************************************)
(* Signature Extractor: inputs and actions.                                *)
(***************************************************************************)
Word == <<"h", "i">>
Space == <<" ">>
TagSIG(n) == <<"[","S","I","G",":">> \o Rep("a", n) \o <<"]">>
TagSIGNATURE(n) ==
    <<"[","S","I","G","N","A","T","U","R","E",":">> \o Rep("Q", n - 1) \o <<"=", "]">>
TagWEB3SIG(n) ==
    <<"[","W","E","B","3","S","I","G",":","0","x">> \o Rep("b", n) \o <<"]">>
TagDID(n) ==
    <<"[","D","I","D",":","d","i","d",":","e","x",":","o","1","#","S","I","G",":">>
        \o Rep("c", n) \o <<"]">>
TagETH(n) == <<"[","E","T","H",":","0","x">> \o Rep("d", n) \o <<"]">>

ValidTags ==
    {TagSIG(64), TagSIGNATURE(64), TagWEB3SIG(128), TagDID(64), TagETH(130)}
ShortTags == {TagSIG(63), TagWEB3SIG(127), TagETH(131)}
\* a word with whitespace on both sides
Padded == <<" ", "h", "i", " ">>
Pieces == {Word, Space, Padded} \cup ValidTags \cup ShortTags

RECURSIVE Concats(_)
Concats(n) ==
    IF n = 0 THEN {<<>>}
    ELSE LET prev == Concats(n - 1)
         IN  prev \cup {m \o p : m \in prev, p \in Pieces}

SmsTexts == Concats(MaxPieces)

ExtractInit ==
    /\ smsText \in SmsTexts
    /\ parsedSvc = Null
    /\ parsedSms = Null
    /\ composed = Null

\* SupabaseVerificationService.parseSMSMessage applied to the text
ParseService ==
    /\ parsedSvc = Null
    /\ parsedSvc' = Some(parseSMSMessage(smsText))
    /\ UNCHANGED <<smsText, parsedSms, composed, BackendVars, PipeVars, SyncVars, ContextVars>>

\* SMSService.parseSMSMessage applied to the text
ParseSMS ==
    /\ parsedSms = Null
    /\ parsedSms' = Some(SMSService_parseSMSMessage(smsText))
    /\ UNCHANGED <<smsText, parsedSvc, composed, BackendVars, PipeVars, SyncVars, ContextVars>>

(***************************************************************************)
(* SMSService.generateTestSMS.  The source holds two versions of the       *)
(* service: the earlier one appends a fixed tag per signature type, the    *)
(* later one a tag whose payload is drawn at random.                       *)
(***************************************************************************)
SignatureTypes == {"hex", "base64", "web3", "ethereum"}

\* the payloads of the four fixed tags of the earlier version
FixedHex ==
    << "a", "1", "b", "2", "c", "3", "d", "4", "e", "5", "f", "6", "7", "8", "9", "0",
       "1", "2", "3", "4", "5", "6", "7", "8", "9", "0", "1", "2", "3", "4", "5", "6",
       "7", "8", "9", "0", "a", "b", "c", "d", "e", "f", "1", "2", "3", "4", "5", "6",
       "7", "8", "9", "0", "a", "b", "c", "d", "e", "f", "1", "2", "3", "4", "5", "6" >>
FixedBase64 ==
    << "S", "G", "V", "s", "b", "G", "8", "g", "V", "2", "9", "y", "b", "G", "Q", "g",
       "V", "G", "h", "p", "c", "y", "B", "J", "c", "y", "B", "B", "I", "F", "R", "l",
       "c", "3", "Q", "g", "U", "2", "l", "n", "b", "m", "F", "0", "d", "X", "J", "l",
       "I", "E", "Z", "v", "c", "i", "B", "E", "Z", "W", "1", "v", "b", "n", "N", "0",
       "c", "m", "F", "0", "a", "W", "9", "u" >>
FixedWeb3 ==
    << "1", "a", "2", "b", "3", "c", "4", "d", "5", "e", "6", "f", "7", "8", "9", "0",
       "1", "2", "3", "4", "5", "6", "7", "8", "9", "a", "b", "c", "d", "e", "f", "0",
       "1", "2", "3", "4", "5", "6", "7", "8", "9", "a", "b", "c", "d", "e", "f", "0",
       "1", "2", "3", "4", "5", "6", "7", "8", "9", "a", "b", "c", "d", "e", "f", "0",
       "1", "2", "3", "4", "5", "6", "7", "8", "9", "a", "b", "c", "d", "e", "f", "0" >>
FixedEth ==
    << "1", "a", "2", "b", "3", "c", "4", "d", "5", "e", "6", "f", "7", "8", "9", "0",
       "1", "2", "3", "4", "5", "6", "7", "8", "9", "a", "b", "c", "d", "e", "f", "0",
       "1", "2", "3", "4", "5", "6", "7", "8", "9", "a", "b", "c", "d", "e", "f", "0",
       "1", "2", "3", "4", "5", "6", "7", "8", "9", "a", "b", "c", "d", "e", "f", "0",
       "1", "2", "3", "4", "5", "6", "7", "8", "9", "a", "b", "c", "d", "e", "f", "0",
       "1", "2", "3", "4", "5", "6", "7", "8", "9", "0", "a", "b", "c", "d", "e", "f",
       "0", "1", "2", "3", "4", "5", "6", "7", "8", "9", "a", "b", "c", "d", "e", "f",
       "0", "1", "2", "3", "4", "5", "6", "7", "8", "9", "a", "b", "c", "d", "e", "f" >>

\* generateTestSMS of the earlier version of SMSService
generateTestSMS_fixed(message, signatureType) ==
    message \o <<" ">> \o
        CASE signatureType = "hex" ->
                 <<"[","S","I","G",":">> \o FixedHex \o <<"]">>
          [] signatureType = "base64" ->
                 <<"[","S","I","G","N","A","T","U","R","E",":">>
                     \o FixedBase64 \o <<"]">>
          [] signatureType = "web3" ->
                 <<"[","W","E","B","3","S","I","G",":","0","x">>
                     \o FixedWeb3 \o <<"]">>
          [] signatureType = "ethereum" ->
                 <<"[","E","T","H",":","0","x">> \o FixedEth \o <<"]">>

\* Math.random() picks every character; the model draws one character and
\* repeats it
HexDraws == {"0", "f"}
Base64Draws == {"A", "/"}

generateHexSignature(c) == Rep(c, 64)
generateWeb3Signature(c) == Rep(c, 128)
generateEthSignature(c) == Rep(c, 130)
generateBase64Signature(c) == Rep(c, 88) \o <<"=", "=">>

\* generateTestSMS of the later version; c is the character drawn
generateTestSMS(message, signatureType, c) ==
    message \o <<" ">> \o
        CASE signatureType = "hex" ->
                 <<"[","S","I","G",":">> \o generateHexSignature(c) \o <<"]">>
          [] signatureType = "base64" ->
                 <<"[","S","I","G","N","A","T","U","R","E",":">>
                     \o generateBase64Signature(c) \o <<"]">>
          [] signatureType = "web3" ->
                 <<"[","W","E","B","3","S","I","G",":","0","x">>
                     \o generateWeb3Signature(c) \o <<"]">>
          [] signatureType = "ethereum" ->
                 <<"[","E","T","H",":","0","x">>
                     \o generateEthSignature(c) \o <<"]">>

\* the messages a test text is composed from
TestMessages == Concats(MaxPieces - 1)

Compose(version, message, signatureType, text) ==
    /\ smsText' = text
    /\ composed' = Some([version |-> version, message |-> message,
                         type |-> signatureType])
    /\ UNCHANGED <<parsedSvc, parsedSms, BackendVars, PipeVars, SyncVars, ContextVars>>

\* generateTestSMS(message, signatureType), earlier version
GenerateTestSMSFixed ==
    /\ composed = Null /\ parsedSvc = Null /\ parsedSms = Null
    /\ smsText \in TestMessages
    /\ \E signatureType \in SignatureTypes :
           Compose("fixed", smsText, signatureType,
                   generateTestSMS_fixed(smsText, signatureType))

\* generateTestSMS(message, signatureType), later version
GenerateTestSMS ==
    /\ composed = Null /\ parsedSvc = Null /\ parsedSms = Null
    /\ smsText \in TestMessages
    /\ \E signatureType \in SignatureTypes :
       \E c \in IF signatureType = "base64" THEN Base64Draws ELSE HexDraws :
           Compose("random", smsText, signatureType,
                   generateTestSMS(smsText, signatureType, c))

ExtractIdle ==
    /\ smsText = <<>>
    /\ parsedSvc = Null
    /\ parsedSms = Null
    /\ composed = Null

(***************************************************************************)
(* Hosted backend: the tables and the stored procedures of the schema.     *)
(***************************************************************************)
\* the demo wallet: Acme Bank's wallet in addSampleOrganizations and the
\* address resolveSenderAddress falls back to
DemoAddr == <<"0", "x">> \o Rep("1", 40)
\* a wallet stored as entered in the Add Organization form (mixed case)
MixedAddr == <<"0", "x">> \o Rep("A", 20) \o Rep("2", 20)
TechPhone == "+1-555-0456"

Acme(status) ==
    [id |-> "org-acme", name |-> "Acme Bank", wallet_address |-> DemoAddr,
     verification_status |-> status, phone |-> Null]
Tech(status) ==
    [id |-> "org-tech", name |-> "Tech Solutions Inc", wallet_address |-> MixedAddr,
     verification_status |-> status, phone |-> Some(TechPhone)]

Directories ==
    { <<Acme(a), Tech("verified")>> : a \in {"verified", "pending"} }

\* message digest of the hosted procedure, kept symbolic
Sha256(content) == <<"sha256">> \o content

\* get_organization_by_wallet(wallet_addr): text comparison is case-sensitive
get_organization_by_wallet_inactive(wallet_addr) ==
    SelectSeq(organizations,
        LAMBDA o :
            \/ o.wallet_address = wallet_addr
            \/ \E i \in DOMAIN organization_wallets :
                 /\ organization_wallets[i].organization_id = o.id
                 /\ organization_wallets[i].wallet_address = wallet_addr)
get_organization_by_wallet(wallet_addr) ==
    SelectSeq(organizations,
        LAMBDA o :
            \/ o.wallet_address = wallet_addr
            \/ \E i \in DOMAIN organization_wallets :
                 /\ organization_wallets[i].organization_id = o.id
                 /\ organization_wallets[i].wallet_address = wallet_addr
                 /\ organization_wallets[i].is_active)

\* signature ~ '^[0-9a-fA-F]{128,}$'
IsHex128_anylength(signature) ==
    \A i \in 1..Len(signature) : signature[i] \in HexClass
IsHex128(signature) ==
    /\ Len(signature) >= 128
    /\ \A i \in 1..Len(signature) : signature[i] \in HexClass

\* verify_message_signature(message_content, signature, sender_addr):
\* the rows the procedure returns
verify_message_signature(message_content, signature, sender_addr) ==
    The({ IF found = <<>>
          THEN << [is_valid |-> Some(FALSE), organization_id |-> Null,
                   organization_name |-> Null,
                   verification_details |->
                       [method |-> "none", message_hash |-> Null, timestamp |-> Null,
                        error |-> Some("Organization not found or not verified")]] >>
          ELSE << [is_valid |-> Some(IsHex128(signature)),
                   organization_id |-> Some(found[1].id),
                   organization_name |-> Some(found[1].name),
                   verification_details |->
                       [method |-> "supabase_function",
                        message_hash |-> Some(Sha256(message_content)),
                        timestamp |-> Null,
                        error |-> IF IsHex128(signature) THEN Null
                                  ELSE Some("Invalid signature format")]] >>
          : found \in { SelectSeq(get_organization_by_wallet(sender_addr),
                                  LAMBDA o : o.verification_status = "verified") } })

\* the unique constraint verified_messages_signature_unique
\* UNIQUE (signature, message_hash): as in SQL, two rows conflict only when
\* both columns are equal and neither is NULL
UniqueViolation(rows, new) ==
    \E i \in DOMAIN rows :
        /\ rows[i].signature = new.signature
        /\ rows[i].message_hash # Null
        /\ new.message_hash # Null
        /\ rows[i].message_hash = new.message_hash

\* row level security: INSERT on verified_messages is granted TO authenticated
InsertAllowed == user # Null

(***************************************************************************)
(* lib/supabase.ts: the client wrappers.  An outcome the environment       *)
(* chooses is passed as a parameter: rpc \in RpcOutcomes, store \in        *)
(* StoreOutcomes, attempt \in AttemptOutcomes.  A wrapper's result has     *)
(* threw = TRUE when the promise rejects.                                   *)
(***************************************************************************)
RpcOutcomes == {"ok", "error", "throw", "empty", "malformed"}
StoreOutcomes == {"ok", "error", "throw"}
AuthOutcomes == {"ok", "throw"}
AttemptOutcomes == {"ok", "error"}
DirOutcomes == {"ok", "error", "throw"}

\* the outcomes of one call's requests; a request that is not reached
\* (because an earlier one failed) is listed as "ok" only
Envs ==
    { e \in [rpc : RpcOutcomes, store : StoreOutcomes,
             auth : AuthOutcomes, attempt : AttemptOutcomes] :
        /\ e.rpc # "ok" => e.store = "ok"
        /\ e.store # "ok" => e.auth = "ok"
        /\ e.auth # "ok" => e.attempt = "ok" }

\* without a backend no request is sent; without a signed-in user the insert
\* is refused whatever the store would have answered
EnvsNow ==
    { e \in Envs :
        /\ ~configured => e.rpc = "ok"
        /\ (~configured \/ user = Null) =>
               e.store = "ok" /\ e.auth = "ok" /\ e.attempt = "ok" }

\* a row without the expected columns (every field undefined)
MalformedRow ==
    [is_valid |-> Null, organization_id |-> Null, organization_name |-> Null,
     verification_details |->
         [method |-> "none", message_hash |-> Null, timestamp |-> Null,
          error |-> Null]]

\* handleSupabaseError: an error object, no data
handleSupabaseError_swallowed == [data |-> Null, error |-> Null]
handleSupabaseError == [data |-> Null, error |-> Some("Unknown database error")]

\* verifyMessage of lib/supabase.ts
lib_verifyMessage_anylength(messageContent, signature, senderAddress, rpc) ==
    IF ~configured
    THEN The({ [data |-> Some(
                   [is_valid |-> Some(isValidSignature),
                    organization_id |->
                        IF isValidSignature THEN Some("org-mock-1") ELSE Null,
                    organization_name |->
                        IF isValidSignature THEN Some("CryptoSecure Technologies")
                        ELSE Null,
                    verification_details |->
                        [method |-> "mock", message_hash |-> Some(<<"random">>),
                         timestamp |-> Some(clock), error |-> Null]]),
                error |-> Null]
               : isValidSignature \in {Len(messageContent) > 0} })
    ELSE IF rpc \in {"error", "throw"} THEN handleSupabaseError
    ELSE The({ [data |-> IF data = <<>> THEN Null ELSE Some(data[1]), error |-> Null]
               : data \in { IF rpc = "empty" THEN <<>>
                            ELSE IF rpc = "malformed" THEN <<MalformedRow>>
                            ELSE verify_message_signature(messageContent, signature,
                                                          senderAddress) } })
lib_verifyMessage(messageContent, signature, senderAddress, rpc) ==
    IF ~configured
    THEN The({ [data |-> Some(
                   [is_valid |-> Some(isValidSignature),
                    organization_id |->
                        IF isValidSignature THEN Some("org-mock-1") ELSE Null,
                    organization_name |->
                        IF isValidSignature THEN Some("CryptoSecure Technologies")
                        ELSE Null,
                    verification_details |->
                        [method |-> "mock", message_hash |-> Some(<<"random">>),
                         timestamp |-> Some(clock), error |-> Null]]),
                error |-> Null]
               : isValidSignature \in {Len(signature) >= 64 /\ Len(messageContent) > 0} })
    ELSE IF rpc \in {"error", "throw"} THEN handleSupabaseError
    ELSE The({ [data |-> IF data = <<>> THEN Null ELSE Some(data[1]), error |-> Null]
               : data \in { IF rpc = "empty" THEN <<>>
                            ELSE IF rpc = "malformed" THEN <<MalformedRow>>
                            ELSE verify_message_signature(messageContent, signature,
                                                          senderAddress) } })

\* saveVerifiedMessage of lib/supabase.ts: the rows of verified_messages
\* afterwards, and what the caller gets
saveVerifiedMessage(messageData, store) ==
    IF ~configured
    THEN [rows |-> verified_messages, data |-> Some([id |-> "msg-mock"]),
          error |-> Null, threw |-> FALSE]
    ELSE IF store = "throw"
    THEN [rows |-> verified_messages, data |-> Null,
          error |-> Some("Failed to save verified message"), threw |-> FALSE]
    ELSE IF \/ store = "error"
            \/ ~InsertAllowed
            \/ UniqueViolation(verified_messages, messageData)
    THEN [rows |-> verified_messages, data |-> Null,
          error |-> Some("insert failed"), threw |-> FALSE]
    ELSE [rows |-> Append(verified_messages,
                          [messageData EXCEPT !.id = Len(verified_messages) + 1]),
          data |-> Some([id |-> Len(verified_messages) + 1]),
          error |-> Null, threw |-> FALSE]

\* recordVerificationAttempt of lib/supabase.ts
recordVerificationAttempt_unlinked(attemptData, attempt) ==
    IF ~configured
    THEN [rows |-> message_verification_attempts, threw |-> FALSE]
    ELSE IF attempt = "ok"
         THEN [rows |-> Append(message_verification_attempts,
                               [attemptData EXCEPT !.message_id = 0]),
               threw |-> FALSE]
         ELSE [rows |-> message_verification_attempts, threw |-> FALSE]
recordVerificationAttempt(attemptData, attempt) ==
    IF ~configured
    THEN [rows |-> message_verification_attempts, threw |-> FALSE]
    ELSE IF attempt = "ok"
         THEN [rows |-> Append(message_verification_attempts, attemptData),
               threw |-> FALSE]
         ELSE [rows |-> message_verification_attempts, threw |-> FALSE]

(***************************************************************************)
(* SupabaseVerificationService.                                            *)
(***************************************************************************)
\* signature.replace(/^0x/, '')
strip0x(s) == IF startsWith(s, <<"0", "x">>) THEN SubSeq(s, 3, Len(s)) ELSE s

\* saveVerificationResult left before the attempt was recorded
Stopped(saved, how, ex) ==
    [verified_messages |-> saved.rows,
     message_verification_attempts |-> message_verification_attempts,
     persist |-> how, threw |-> ex]

\* the try block of saveVerificationResult: the two tables afterwards, how
\* far the block got, and whether it ended with an exception
saveVerificationResultBody(params, env) ==
    The({ IF saved.threw THEN Stopped(saved, "message_failed", TRUE)
          ELSE IF saved.error # Null THEN Stopped(saved, "message_failed", FALSE)
          ELSE IF env.auth = "throw" THEN Stopped(saved, "auth_failed", TRUE)
          ELSE IF user # Null /\ saved.data # Null
          THEN The({ IF rec.threw THEN Stopped(saved, "attempt_failed", TRUE)
                     ELSE [verified_messages |-> saved.rows,
                           message_verification_attempts |-> rec.rows,
                           persist |->
                               IF rec.rows = message_verification_attempts
                               THEN "attempt_failed" ELSE "ok",
                           threw |-> FALSE]
                     : rec \in { recordVerificationAttempt(
                                     [message_id |-> saved.data[1].id,
                                      attempted_by |-> user[1],
                                      verification_method |-> params.verificationMethod,
                                      success |-> TRUE], env.attempt) } })
          ELSE Stopped(saved, "no_user", FALSE)
          : saved \in { saveVerifiedMessage(
                            [id |-> 0,
                             organization_id |-> params.organizationId,
                             message_content |-> params.messageContent,
                             signature |-> params.signature,
                             sender_address |-> params.senderAddress,
                             verification_status |-> "verified",
                             verification_details |-> params.verificationDetails,
                             message_hash |-> Null], env.store) } })

\* the catch of saveVerificationResult: the error is logged, nothing is rethrown
SaveCatch_rethrow(body) == body
SaveCatch(body) == [body EXCEPT !.threw = FALSE]

\* saveVerificationResult
saveVerificationResult(params, env) ==
    SaveCatch(saveVerificationResultBody(params, env))

\* if (verificationResult.is_valid): the Persister is called for valid results
ShouldSave_always(verificationResult) == TRUE
ShouldSave(verificationResult) == verificationResult.is_valid = Some(TRUE)

Failure(err) ==
    [isValid |-> Some(FALSE), success |-> FALSE, error |-> Some(err),
     organizationId |-> Null, organizationName |-> Null,
     verificationDetails |-> Null, threw |-> FALSE]

\* a call that writes nothing: the result, and the tables as they were
Unsaved(res, remote, rpc, persist) ==
    [result |-> res, remote |-> remote, rpc |-> rpc, persist |-> persist,
     verified_messages |-> verified_messages,
     message_verification_attempts |-> message_verification_attempts]

\* verifyMessageSignature after the Remote Verifier has answered r
afterVerifyMessage(r, cleanContent, cleanSignature, cleanSender, verificationMethod, env) ==
    IF r.error # Null
    THEN Unsaved(Failure("Verification service error"), Some(r), env.rpc, "not_called")
    ELSE IF r.data = Null
    THEN Unsaved(Failure("No verification result returned"), Some(r), env.rpc,
                 "not_called")
    ELSE The({ IF saved.threw
               THEN Unsaved(Failure("Verification failed due to technical error"),
                            Some(r), env.rpc, saved.persist)
               ELSE [result |->
                         [isValid |-> r.data[1].is_valid,
                          success |-> TRUE,
                          error |-> Null,
                          organizationId |-> r.data[1].organization_id,
                          organizationName |-> r.data[1].organization_name,
                          verificationDetails |-> Some(r.data[1].verification_details),
                          threw |-> FALSE],
                     remote |-> Some(r), rpc |-> env.rpc,
                     persist |-> saved.persist,
                     verified_messages |-> saved.verified_messages,
                     message_verification_attempts |->
                         saved.message_verification_attempts]
               : saved \in {
                   IF ShouldSave(r.data[1])
                   THEN saveVerificationResult(
                            [messageContent |-> cleanContent,
                             signature |-> cleanSignature,
                             senderAddress |-> cleanSender,
                             organizationId |-> r.data[1].organization_id,
                             verificationDetails |-> r.data[1].verification_details,
                             verificationMethod |-> verificationMethod], env)
                   ELSE [verified_messages |-> verified_messages,
                         message_verification_attempts |->
                             message_verification_attempts,
                         persist |-> "not_called", threw |-> FALSE] } })

\* verifyMessageSignature: the result returned to the caller, the two tables
\* afterwards, and (for the record) what the Remote Verifier answered and
\* what the Persister did
verifyMessageSignature(messageContent, signature, senderAddress, verificationMethod, env) ==
    The({ The({ afterVerifyMessage(r, clean[1], clean[2], clean[3],
                                   verificationMethod, env)
                : r \in {lib_verifyMessage(clean[1], clean[2], clean[3], env.rpc)} })
          : clean \in { << trim(messageContent),
                           toLowerCase(strip0x(signature)),
                           toLowerCase(senderAddress) >> } })

\* the directory query of resolveSenderAddress: verified organizations whose
\* metadata contains the phone number, at most one
PhoneLookup(senderPhone) ==
    SelectSeq(organizations,
        LAMBDA o : o.phone = Some(senderPhone) /\ o.verification_status = "verified")

\* resolveSenderAddress: [threw, address]
resolveSenderAddress_phonefirst(extractedAddress, senderPhone, dir) ==
    IF senderPhone # Null /\ dir = "throw"
    THEN [threw |-> TRUE, address |-> Null, fallback |-> FALSE]
    ELSE The({ IF data # <<>>
               THEN [threw |-> FALSE, address |-> Some(data[1].wallet_address),
                     fallback |-> FALSE]
               ELSE IF /\ extractedAddress # <<>>
                       /\ \/ startsWith(extractedAddress, <<"d","i","d",":">>)
                          \/ startsWith(extractedAddress, <<"0","x">>)
               THEN [threw |-> FALSE, address |-> Some(extractedAddress),
                     fallback |-> FALSE]
               ELSE [threw |-> FALSE, address |-> Some(DemoAddr), fallback |-> TRUE]
               : data \in { IF senderPhone # Null /\ dir = "ok" /\ configured
                            THEN PhoneLookup(senderPhone[1]) ELSE <<>> } })
resolveSenderAddress_nodemo(extractedAddress, senderPhone, dir) ==
    IF /\ extractedAddress # <<>>
       /\ \/ startsWith(extractedAddress, <<"d","i","d",":">>)
          \/ startsWith(extractedAddress, <<"0","x">>)
    THEN [threw |-> FALSE, address |-> Some(extractedAddress), fallback |-> FALSE]
    ELSE IF senderPhone # Null /\ dir = "throw"
    THEN [threw |-> TRUE, address |-> Null, fallback |-> FALSE]
    ELSE The({ IF data # <<>>
               THEN [threw |-> FALSE, address |-> Some(data[1].wallet_address),
                     fallback |-> FALSE]
               ELSE [threw |-> FALSE, address |-> Null, fallback |-> TRUE]
               : data \in { IF senderPhone # Null /\ dir = "ok" /\ configured
                            THEN PhoneLookup(senderPhone[1]) ELSE <<>> } })
resolveSenderAddress(extractedAddress, senderPhone, dir) ==
    IF /\ extractedAddress # <<>>
       /\ \/ startsWith(extractedAddress, <<"d","i","d",":">>)
          \/ startsWith(extractedAddress, <<"0","x">>)
    THEN [threw |-> FALSE, address |-> Some(extractedAddress), fallback |-> FALSE]
    ELSE IF senderPhone # Null /\ dir = "throw"
    THEN [threw |-> TRUE, address |-> Null, fallback |-> FALSE]
    ELSE The({ IF data # <<>>
               THEN [threw |-> FALSE, address |-> Some(data[1].wallet_address),
                     fallback |-> FALSE]
               ELSE [threw |-> FALSE, address |-> Some(DemoAddr), fallback |-> TRUE]
               : data \in { IF senderPhone # Null /\ dir = "ok" /\ configured
                            THEN PhoneLookup(senderPhone[1]) ELSE <<>> } })

\* the texts the model hands to verifySMSMessage and verifyMessage
SmsInputs ==
    { <<"h", "i">>,
      <<"h", "i", " ">> \o TagSIG(63),
      <<"h", "i", " ">> \o TagWEB3SIG(128),
      TagDID(128) \o <<" ", "h", "i">> }

\* parseSMSMessage, computed once for each of these texts
ParsedInputs == [t \in SmsInputs |-> parseSMSMessage(t)]
Parse(t) == ParsedInputs[t]

\* a call that returns before the Remote Verifier is asked
Early(err) == Unsaved(Failure(err), Null, "none", "not_called")

\* verifySMSMessage
verifySMSMessage(smsContent, senderPhone, dir, env) ==
    The({ IF parsed.signature = <<>>
          THEN Early("No signature found in SMS message")
          ELSE The({ IF senderAddress.threw THEN Early("SMS verification failed")
                     ELSE IF \/ senderAddress.address = Null
                             \/ senderAddress.address = Some(<<>>)
                     THEN Early("Could not resolve sender wallet address")
                     ELSE verifyMessageSignature(parsed.content, parsed.signature,
                                                 senderAddress.address[1], "sms", env)
                     : senderAddress \in
                         {resolveSenderAddress(parsed.senderAddress, senderPhone, dir)} })
          : parsed \in {Parse(smsContent)} })

\* A scanned text is described by what JSON.parse makes of it: kind "text"
\* (not JSON, JSON.parse throws), "null", "scalar" (a number, a string, a
\* boolean or an array: it has none of the fields) or "object".  A field of
\* an object is absent (Null) or holds a string or a number.
JString(s) == [t |-> "string", s |-> s, n |-> 0]
JNumber(n) == [t |-> "number", s |-> <<>>, n |-> n]

\* !field: undefined, the empty string and 0 are falsy
Falsy(field) ==
    \/ field = Null
    \/ field[1].t = "string" /\ field[1].s = <<>>
    \/ field[1].t = "number" /\ field[1].n = 0

\* a call of verifyMessageSignature that throws before the Remote Verifier
\* is asked (trim, replace or toLowerCase of a value that is not a string)
\* and returns the result of its catch
TechnicalError ==
    Unsaved(Failure("Verification failed due to technical error"), Null, "none",
            "not_called")

\* verifyQRMessage; JSON.parse of a text that is not JSON and the
\* destructuring of null throw, and the catch answers
verifyQRMessage_anysender(qrData, env) ==
    IF qrData.kind \in {"text", "null"} THEN Early("Invalid QR code format")
    ELSE IF Falsy(qrData.message) \/ Falsy(qrData.signature)
    THEN Early("Invalid QR code format")
    ELSE IF Falsy(qrData.sender)
    THEN verifyMessageSignature(qrData.message[1].s, qrData.signature[1].s,
                                DemoAddr, "qr", env)
    ELSE IF \E f \in {qrData.message, qrData.signature, qrData.sender} :
                f[1].t # "string"
    THEN TechnicalError
    ELSE verifyMessageSignature(qrData.message[1].s, qrData.signature[1].s,
                                qrData.sender[1].s, "qr", env)
verifyQRMessage_passthrough(qrData, env) ==
    IF qrData.kind \in {"text", "null"} THEN Early("Invalid QR code format")
    ELSE IF Falsy(qrData.message) \/ Falsy(qrData.signature) \/ Falsy(qrData.sender)
    THEN Early("Invalid QR code format")
    ELSE IF \E f \in {qrData.message, qrData.signature, qrData.sender} :
                f[1].t # "string"
    THEN TechnicalError
    ELSE The({ [out EXCEPT !.result.verificationDetails =
                   IF @ = Null \/ qrData.timestamp = Null THEN @
                   ELSE Some([@[1] EXCEPT
                                 !.timestamp = Some(qrData.timestamp[1].n)])]
               : out \in { verifyMessageSignature(
                               qrData.message[1].s, qrData.signature[1].s,
                               qrData.sender[1].s, "qr", env) } })
verifyQRMessage(qrData, env) ==
    IF qrData.kind \in {"text", "null"} THEN Early("Invalid QR code format")
    ELSE IF Falsy(qrData.message) \/ Falsy(qrData.signature) \/ Falsy(qrData.sender)
    THEN Early("Invalid QR code format")
    ELSE IF \E f \in {qrData.message, qrData.signature, qrData.sender} :
                f[1].t # "string"
    THEN TechnicalError
    ELSE verifyMessageSignature(qrData.message[1].s, qrData.signature[1].s,
                                qrData.sender[1].s, "qr", env)

\* verifyMessage of the service (the generic entry point)
verifyMessage_unchecked(content, sender, env) ==
    The({ verifyMessageSignature(
              parsed.content, parsed.signature,
              IF sender # <<>> THEN sender ELSE parsed.senderAddress,
              "manual", env)
          : parsed \in {Parse(content)} })
verifyMessage(content, sender, env) ==
    The({ IF parsed.signature = <<>>
          THEN Early("No signature found in message")
          ELSE verifyMessageSignature(
                   parsed.content, parsed.signature,
                   IF sender # <<>> THEN sender ELSE parsed.senderAddress,
                   "manual", env)
          : parsed \in {Parse(content)} })

(***************************************************************************)
(* Verification pipeline: inputs, initial state and actions.               *)
(***************************************************************************)
Hi == <<" ", "h", "i">>
SigShort == Rep("a", 10)
Sig64 == Rep("a", 64)
Sig128 == <<"0", "x">> \o Rep("A", 128)
Text == <<"h", "i">>
\* a text whose only tag is one character too short to be recognized
TextShort == <<"h", "i", " ">> \o TagSIG(63)
TextWeb3 == <<"h", "i", " ">> \o TagWEB3SIG(128)
TextDid == TagDID(128) \o <<" ", "h", "i">>

\* verifyMessageSignature(content, signature, sender)
SignatureCalls ==
    { <<Hi, SigShort, DemoAddr>>, <<Hi, Sig64, DemoAddr>>, <<Hi, Sig128, DemoAddr>>,
      <<Hi, Sig128, MixedAddr>>, <<<<>>, Sig64, DemoAddr>>, <<<<>>, Sig128, DemoAddr>> }
\* verifySMSMessage(smsContent, senderPhone)
SmsCalls ==
    { <<Text, Null>>, <<TextShort, Some(TechPhone)>>, <<TextWeb3, Null>>, <<TextWeb3, Some(TechPhone)>>,
      <<TextWeb3, Some("+1-555-9999")>>, <<TextDid, Null>> }
\* verifyMessage(content, sender)
MessageCalls ==
    { <<Text, DemoAddr>>, <<TextShort, DemoAddr>>, <<TextWeb3, DemoAddr>>, <<TextWeb3, <<>>>>, <<TextDid, <<>>>> }
\* the scanned texts: what JSON.parse makes of each
QrPayload(kind, message, signature, sender) ==
    [kind |-> kind, message |-> message, signature |-> signature,
     sender |-> sender, organizationName |-> Null, issuer |-> Null,
     timestamp |-> Null, version |-> Null]
QrSigned == QrPayload("object", Some(JString(Word)), Some(JString(Sig128)),
                      Some(JString(DemoAddr)))
\* the payload of QR_SCANNER_USE_CASES.md, under another organization's name
QrNamed ==
    [QrSigned EXCEPT !.organizationName = Some(JString(<<"E", "v", "i", "l">>)),
                     !.timestamp = Some(JNumber(7)),
                     !.version = Some(JString(<<"1", ".", "0">>))]
QrInputs ==
    { QrPayload("text", Null, Null, Null),
      QrPayload("null", Null, Null, Null),
      QrPayload("scalar", Null, Null, Null),
      QrPayload("object", Null, Null, Null),
      [QrNamed EXCEPT !.message = Null],
      [QrNamed EXCEPT !.message = Some(JString(<<>>))],
      [QrNamed EXCEPT !.signature = Null],
      [QrNamed EXCEPT !.signature = Some(JNumber(0))],
      [QrNamed EXCEPT !.sender = Null],
      [QrNamed EXCEPT !.sender = Some(JString(<<>>))],
      [QrSigned EXCEPT !.message = Some(JNumber(7))],
      QrSigned,
      QrNamed }

NoCall ==
    [op |-> "none", content |-> <<>>, signature |-> <<>>, sender |-> <<>>,
     qr |-> Null, dir |-> "none",
     phone |-> Null, resolved |-> Null, fallback |-> FALSE,
     remote |-> Null, rpc |-> "none", persist |-> "not_called",
     result |-> Null, before |-> <<0, 0>>]

BackendInit ==
    /\ configured \in BOOLEAN
    /\ user \in IF configured THEN {Null, Some("user-1")} ELSE {Null}
    /\ organizations \in Directories
    /\ organization_wallets = <<>>
    /\ verified_messages = <<>>
    /\ message_verification_attempts = <<>>

PipeInit == lastCall = NoCall

\* the call is made, the tables change as the call changed them, and the
\* call is recorded with the sizes of the two tables before it
Returned(op, content, signature, sender, phone, resolved, out, qr, dir) ==
    /\ Len(verified_messages) < MaxRows
    /\ verified_messages' = out.verified_messages
    /\ message_verification_attempts' = out.message_verification_attempts
    /\ lastCall' =
          [op |-> op, content |-> content, signature |-> signature,
           sender |-> sender, qr |-> qr, dir |-> dir, phone |-> phone,
           resolved |-> resolved.address, fallback |-> resolved.fallback,
           remote |-> out.remote,
           rpc |-> IF configured THEN out.rpc ELSE "none",
           persist |-> out.persist,
           result |-> Some(out.result),
           before |-> <<Len(verified_messages), Len(message_verification_attempts)>>]
    /\ UNCHANGED <<configured, user, organizations, organization_wallets,
                   ExtractVars, SyncVars, ContextVars>>

Return(op, content, signature, sender, phone, resolved, out) ==
    Returned(op, content, signature, sender, phone, resolved, out, Null, "none")

NotResolved == [threw |-> FALSE, address |-> Null, fallback |-> FALSE]

\* the string a field of a payload holds, <<>> if it holds none
StringOf(field) ==
    IF field = Null \/ field[1].t # "string" THEN <<>> ELSE field[1].s

VerifyMessageSignature ==
    \E in \in SignatureCalls, env \in EnvsNow :
        \E out \in {verifyMessageSignature(in[1], in[2], in[3], "manual", env)} :
            Return("verifyMessageSignature", in[1], in[2], in[3], Null,
                   NotResolved, out)

VerifySMSMessage ==
    \E in \in SmsCalls, env \in EnvsNow :
    \E dir \in IF in[2] = Null THEN {"ok"} ELSE DirOutcomes :
        \E parsed \in {Parse(in[1])},
           out \in {verifySMSMessage(in[1], in[2], dir, env)} :
            Returned("verifySMSMessage", in[1], parsed.signature,
                     parsed.senderAddress, in[2],
                     IF parsed.signature = <<>> THEN NotResolved
                     ELSE resolveSenderAddress(parsed.senderAddress, in[2], dir),
                     out, Null, dir)

VerifyQRMessage ==
    \E q \in QrInputs, env \in EnvsNow :
        \E out \in {verifyQRMessage(q, env)} :
            Returned("verifyQRMessage", StringOf(q.message), StringOf(q.signature),
                     StringOf(q.sender), Null, NotResolved, out, Some(q), "none")

VerifyMessage ==
    \E in \in MessageCalls, env \in EnvsNow :
        \E parsed \in {Parse(in[1])}, out \in {verifyMessage(in[1], in[2], env)} :
            Return("verifyMessage", in[1], parsed.signature, in[2], Null,
                   NotResolved, out)

\* supabase.auth: sign in and sign out
SignIn ==
    /\ configured /\ user = Null
    /\ user' = Some("user-1")
    /\ UNCHANGED <<configured, organizations, organization_wallets,
                   verified_messages, message_verification_attempts,
                   ExtractVars, PipeVars, SyncVars, ContextVars>>

SignOut ==
    /\ user # Null
    /\ user' = Null
    /\ UNCHANGED <<configured, organizations, organization_wallets,
                   verified_messages, message_verification_attempts,
                   ExtractVars, PipeVars, SyncVars, ContextVars>>

SyncIdle ==
    /\ syncInProgress = FALSE
    /\ syncInterval = Null
    /\ timers = {}
    /\ storage = [cached_organizations |-> Null, cached_messages |-> Null,
                  lastSync |-> Null, messages |-> Null]
    /\ syncCalls = <<>>
    /\ fetchLog = <<>>
    /\ clock = 0

\* useState<Message[]>([]), and no call made yet
ContextIdle ==
    /\ messages = <<>>
    /\ calls = <<>>

Init == ExtractIdle /\ BackendInit /\ PipeInit /\ SyncIdle /\ ContextIdle

Next ==
    \/ VerifyMessageSignature
    \/ VerifySMSMessage
    \/ VerifyQRMessage
    \/ VerifyMessage
    \/ SignIn
    \/ SignOut

Spec == Init /\ [][Next]_vars

(***************************************************************************)
(* Properties of the verification pipeline (specification Spec).           *)
(***************************************************************************)
Called == lastCall.op # "none"
Result == lastCall.result[1]
SameTriple(a, b) ==
    /\ a.message_content = b.message_content
    /\ a.signature = b.signature
    /\ a.sender_address = b.sender_address

\* C1: verifying the same (content, signature, sender) twice never leaves
\* two VerifiedMessage rows for that triple.
C1_NoDuplicateVerifiedMessage ==
    \A i, j \in DOMAIN verified_messages :
        SameTriple(verified_messages[i], verified_messages[j]) => i = j

\* C3: when the Sender Resolver had to fall back to its sentinel, the
\* sentinel is the fixed demo address and the verification made with it is
\* never reported valid.
C3_FallbackSenderNeverValid ==
    (lastCall.op = "verifySMSMessage" /\ lastCall.fallback) =>
        /\ lastCall.resolved = Some(DemoAddr)
        /\ Result.isValid # Some(TRUE)

\* C4: a call adds a VerifiedMessage row only when it returns isValid = true
\* without an error; a call that returns invalid or an error adds none.
C4_RowOnlyWhenValid ==
    Called =>
        /\ Len(verified_messages) \in {lastCall.before[1], lastCall.before[1] + 1}
        /\ (Result.isValid # Some(TRUE) \/ Result.error # Null)
               => Len(verified_messages) = lastCall.before[1]

\* a valid call has written its row
C4_Witness ==
    /\ Called
    /\ Result.isValid = Some(TRUE)
    /\ Len(verified_messages) = lastCall.before[1] + 1

\* C5: every call of a verify operation adds one VerificationAttempt row,
\* whatever its outcome.
C5_AttemptForEveryCall ==
    Called => Len(message_verification_attempts) = lastCall.before[2] + 1

\* C6: when writing the VerifiedMessage or the VerificationAttempt row
\* failed, the call still returns, without an error, the validity and the
\* organization the Remote Verifier computed.
C6_PersistFailureKeepsResult ==
    lastCall.persist \in {"message_failed", "auth_failed", "attempt_failed"} =>
        LET verificationResult == lastCall.remote[1].data[1] IN
        /\ ~Result.threw
        /\ Result.error = Null
        /\ Result.isValid = verificationResult.is_valid
        /\ Result.organizationId = verificationResult.organization_id
        /\ Result.organizationName = verificationResult.organization_name

\* the store refused the VerifiedMessage row of a valid verification
C6_Witness ==
    /\ lastCall.persist = "message_failed"
    /\ Result.isValid = Some(TRUE)
    /\ Len(verified_messages) = lastCall.before[1]

\* C7: when the hosted procedure fails or answers with an empty or a
\* malformed response, the call returns isValid = false with an error
\* string and does not throw.
C7_RemoteFailureGivesError ==
    lastCall.rpc \in {"error", "throw", "empty", "malformed"} =>
        /\ ~Result.threw
        /\ Result.isValid = Some(FALSE)
        /\ Result.error # Null

\* C18 as stated: when the backend is configured and the remote call fails,
\* the result is valid exactly when the normalized signature has at least
\* 64 characters and the content is not empty, and a valid result names a
\* placeholder organization.
C18_UnreachableAppliesHeuristic ==
    (lastCall.op = "verifyMessageSignature" /\ lastCall.rpc \in {"error", "throw"}) =>
        /\ Result.isValid = Some(TRUE) <=>
               /\ Len(toLowerCase(strip0x(lastCall.signature))) >= 64
               /\ Len(trim(lastCall.content)) > 0
        /\ Result.isValid = Some(TRUE) => Result.organizationName # Null

\* C18 as amended: when the backend is configured and the remote call
\* fails, no heuristic is applied: the Remote Verifier returns an error and
\* no data, and the call returns isValid = false with the error
\* "Verification service error", names no organization and writes no row.
C18_UnreachableGivesError ==
    lastCall.rpc \in {"error", "throw"} =>
        /\ configured
        /\ lastCall.remote # Null
        /\ lastCall.remote[1].data = Null /\ lastCall.remote[1].error # Null
        /\ ~Result.threw
        /\ Result.isValid = Some(FALSE)
        /\ Result.error = Some("Verification service error")
        /\ Result.organizationId = Null /\ Result.organizationName = Null
        /\ Result.verificationDetails = Null
        /\ Len(verified_messages) = lastCall.before[1]
        /\ Len(message_verification_attempts) = lastCall.before[2]

\* the remote call failed for a content and a signature of 128 characters
\* that the stand-in heuristic would approve
C18_Witness ==
    /\ lastCall.op = "verifyMessageSignature"
    /\ lastCall.rpc = "error"
    /\ lastCall.signature = Sig128 /\ lastCall.content = Hi
    /\ Result.isValid = Some(FALSE)
    /\ Result.error = Some("Verification service error")

\* C21: verifySMSMessage and verifyMessage, given a text in which the
\* extractor finds no signature tag, return isValid = false with their "no
\* signature found" error; they do not throw, the Remote Verifier is not
\* asked and no row is written.
C21_NoSignatureNoVerification ==
    (lastCall.op \in {"verifySMSMessage", "verifyMessage"}
        /\ lastCall.signature = <<>>) =>
        /\ ~Result.threw
        /\ Result.isValid = Some(FALSE)
        /\ Result.success = FALSE
        /\ Result.error =
               Some(IF lastCall.op = "verifySMSMessage"
                    THEN "No signature found in SMS message"
                    ELSE "No signature found in message")
        /\ lastCall.remote = Null /\ lastCall.rpc = "none"
        /\ lastCall.persist = "not_called"
        /\ Len(verified_messages) = lastCall.before[1]
        /\ Len(message_verification_attempts) = lastCall.before[2]

\* verifyMessage was given, in hosted mode with a user signed in and the
\* sender's organization verified, a text whose SIG tag is one character
\* too short, after an earlier call had stored a row
C21_Witness ==
    /\ lastCall.op = "verifyMessage"
    /\ lastCall.content = TextShort /\ lastCall.sender = DemoAddr
    /\ lastCall.signature = <<>>
    /\ configured /\ user # Null
    /\ organizations[1] = Acme("verified")
    /\ lastCall.before[1] = 1 /\ Len(verified_messages) = 1
    /\ Result.error = Some("No signature found in message")

\* the payload of the verifyQRMessage call recorded
Payload == lastCall.qr[1]
\* the payload is a JSON object that carries message, signature and sender,
\* none of them empty
Carries(q) ==
    /\ q.kind = "object"
    /\ ~Falsy(q.message) /\ ~Falsy(q.signature) /\ ~Falsy(q.sender)

\* C22: verifyQRMessage, given a payload that is not JSON, is not a JSON
\* object, or lacks message, signature or sender or holds an empty one,
\* returns isValid = false with the error "Invalid QR code format"; it does
\* not throw, the Remote Verifier is not asked and no row is written.  The
\* Remote Verifier is asked only for an object that carries all three.
C22_MalformedPayloadRejected ==
    lastCall.op = "verifyQRMessage" =>
        /\ ~Carries(Payload) =>
               /\ ~Result.threw
               /\ Result.isValid = Some(FALSE)
               /\ Result.success = FALSE
               /\ Result.error = Some("Invalid QR code format")
               /\ lastCall.remote = Null /\ lastCall.rpc = "none"
               /\ lastCall.persist = "not_called"
               /\ Len(verified_messages) = lastCall.before[1]
               /\ Len(message_verification_attempts) = lastCall.before[2]
        /\ lastCall.remote # Null => Carries(Payload)

\* in hosted mode, with a user signed in and a row already stored, a
\* payload that has a valid message and signature and an empty sender was
\* rejected
C22_Witness ==
    /\ lastCall.op = "verifyQRMessage"
    /\ Payload = [QrNamed EXCEPT !.sender = Some(JString(<<>>))]
    /\ configured /\ user # Null
    /\ lastCall.before[1] = 1 /\ Len(verified_messages) = 1
    /\ Result.error = Some("Invalid QR code format")

\* the payload without the fields verifyQRMessage does not read
Bare(q) ==
    [q EXCEPT !.organizationName = Null, !.issuer = Null, !.timestamp = Null,
              !.version = Null]

\* C23 as stated: when the payload of a verifyQRMessage call that was
\* answered carries organizationName, timestamp or version, the details of
\* the result hold that field with the payload's value.
C23_ExtraFieldsInDetails ==
    (lastCall.op = "verifyQRMessage" /\ Result.success) =>
        /\ Result.verificationDetails # Null
        /\ \A d \in {Result.verificationDetails[1]} :
              /\ Payload.organizationName # Null =>
                     /\ "organizationName" \in DOMAIN d
                     /\ d.organizationName = Payload.organizationName
              /\ Payload.timestamp # Null =>
                     /\ "timestamp" \in DOMAIN d
                     /\ d.timestamp = Some(Payload.timestamp[1].n)
              /\ Payload.version # Null =>
                     /\ "version" \in DOMAIN d
                     /\ d.version = Payload.version

\* C23 as amended: verifyQRMessage does not read organizationName,
\* timestamp or version.  The details of an answered call are the details
\* the Remote Verifier returned, and for every payload and every behaviour
\* of the backend the call returns, and writes, what it does for the same
\* payload without these fields.
C23_ExtraFieldsIgnored ==
    /\ (lastCall.op = "verifyQRMessage" /\ Result.success) =>
           /\ lastCall.remote # Null /\ lastCall.remote[1].data # Null
           /\ Result.verificationDetails
                  = Some(lastCall.remote[1].data[1].verification_details)
           /\ Result.organizationName = lastCall.remote[1].data[1].organization_name
    /\ \A q \in QrInputs, env \in EnvsNow :
           verifyQRMessage(q, env) = verifyQRMessage(Bare(q), env)

\* the hosted procedure accepted a payload that names another organization
\* and carries a timestamp and a version: the result names the owner of the
\* wallet, and its details are the procedure's
C23_Witness ==
    /\ lastCall.op = "verifyQRMessage"
    /\ Payload = QrNamed
    /\ configured /\ lastCall.rpc = "ok"
    /\ Result.isValid = Some(TRUE)
    /\ Result.organizationName = Some("Acme Bank")
    /\ Result.verificationDetails[1].method = "supabase_function"
    /\ Result.verificationDetails[1].timestamp = Null

\* a step in which a verify operation is called and answers isValid = true
ValidCall == lastCall' # lastCall /\ lastCall'.result[1].isValid = Some(TRUE)
\* the last row of a table
Last(rows) == rows[Len(rows)]
\* the step adds one VerificationAttempt row, made by the user, that
\* references the VerifiedMessage row the same step adds
OneLinkedAttempt ==
    /\ Len(message_verification_attempts') = Len(message_verification_attempts) + 1
    /\ Len(verified_messages') = Len(verified_messages) + 1
    /\ Last(message_verification_attempts').message_id = Last(verified_messages').id
    /\ Last(message_verification_attempts').attempted_by = user[1]

\* C29: in every call of verifySMSMessage that reaches resolveSenderAddress,
\* whatever the hint of the text and the phone number, the address
\* resolveSenderAddress returns is neither null nor the empty string unless
\* the directory query throws; and no call of verifySMSMessage returns the
\* error "Could not resolve sender wallet address".
C29_SenderAlwaysResolved ==
    lastCall.op = "verifySMSMessage" =>
        /\ lastCall.result[1].error
               # Some("Could not resolve sender wallet address")
        /\ ( /\ lastCall.signature # <<>>
             /\ ~resolveSenderAddress(lastCall.sender, lastCall.phone,
                                      lastCall.dir).threw ) =>
               /\ lastCall.resolved # Null
               /\ lastCall.resolved # Some(<<>>)

\* a call of verifySMSMessage whose text yields no hint, with a phone
\* number the directory answers with an error on, went on to the Remote
\* Verifier with the demo address
C29_Witness ==
    /\ lastCall.op = "verifySMSMessage"
    /\ lastCall.signature # <<>>
    /\ lastCall.sender = <<>>
    /\ lastCall.phone # Null
    /\ lastCall.dir = "error"
    /\ lastCall.fallback
    /\ lastCall.resolved = Some(DemoAddr)
    /\ lastCall.rpc = "ok"

\* C30: with a backend, when verifyMessageSignature is called with a
\* well-formed signature and a sender that is, letter for letter, the wallet
\* address stored for a verified organization, and the Remote Verifier
\* answers, the result is isValid = true with that organization's id and
\* name.
C30_StoredAddressVerifies ==
    \A i \in DOMAIN organizations :
        ( /\ lastCall.op = "verifyMessageSignature"
          /\ configured
          /\ lastCall.rpc = "ok"
          /\ trim(lastCall.content) # <<>>
          /\ lastCall.signature = Sig128
          /\ organizations[i].verification_status = "verified"
          /\ organizations[i].wallet_address = lastCall.sender ) =>
            /\ lastCall.result[1].isValid = Some(TRUE)
            /\ lastCall.result[1].organizationId = Some(organizations[i].id)
            /\ lastCall.result[1].organizationName = Some(organizations[i].name)

\* C20 as stated: a call that answers isValid = true while a user is signed
\* in writes exactly one VerificationAttempt row, which references the
\* VerifiedMessage row the call wrote; a call made while no user is signed
\* in writes no VerificationAttempt row.
C20_ValidCallWritesOneAttempt ==
    [][ /\ (ValidCall /\ user # Null) => OneLinkedAttempt
        /\ (lastCall' # lastCall /\ user = Null) =>
               message_verification_attempts' = message_verification_attempts
      ]_vars

\* C20 as amended: a call that answers isValid = true while a user is signed
\* in writes exactly one VerificationAttempt row, which references the
\* VerifiedMessage row the call wrote, unless writing the VerifiedMessage
\* row, reading the user or writing the attempt row fails, and then it
\* writes no attempt row; no other call writes an attempt row, in particular
\* none made while no user is signed in.
C20_OneAttemptUnlessWriteFails ==
    [][ /\ (ValidCall /\ user # Null) =>
               IF lastCall'.persist \in {"message_failed", "auth_failed",
                                         "attempt_failed"}
               THEN message_verification_attempts' = message_verification_attempts
               ELSE OneLinkedAttempt
        /\ message_verification_attempts' # message_verification_attempts =>
               ValidCall /\ user # Null /\ OneLinkedAttempt
      ]_vars

\* a valid verification by a signed-in user has written its VerifiedMessage
\* row and one VerificationAttempt row that references it
C20_Witness ==
    /\ Called
    /\ Result.isValid = Some(TRUE)
    /\ lastCall.persist = "ok"
    /\ Len(verified_messages) = lastCall.before[1] + 1
    /\ Len(message_verification_attempts) = lastCall.before[2] + 1
    /\ Last(message_verification_attempts).message_id = Last(verified_messages).id
    /\ Last(message_verification_attempts).attempted_by = "user-1"

(***************************************************************************)
(* Local Cache / Offline Mirror: DataSyncService.                          *)
(*                                                                         *)
(* A call of syncData is a record of syncCalls; pc is the await the call   *)
(* is suspended at.  A row of verified_messages is kept to the columns the *)
(* sync reads: id, created_at and verification_status.  fetchLog has one   *)
(* entry for every query the service sent to the backend.                  *)
(***************************************************************************)
SyncLimit == 100

Min(a, b) == IF a < b THEN a ELSE b

MessageRow(n, status) ==
    [id |-> n, created_at |-> n, verification_status |-> status]

\* the rows in verified_messages before the app started: one message that
\* is still pending, then n verified ones
StoredMessages(n) ==
    [i \in 1..(n + 1) |->
        MessageRow(i - (n + 1), IF i = 1 THEN "pending" ELSE "verified")]

\* .eq('verification_status', 'verified') and the SELECT policies of both
\* tables: only verified rows are returned
verifiedOnly(rows) ==
    SelectSeq(rows, LAMBDA r : r.verification_status = "verified")

\* .order('created_at', { ascending: false })
orderDesc(rows) ==
    LET n == Len(rows) IN
    The({ [i \in 1..n |-> rows[CHOOSE j \in 1..n : rank[j] = i]] :
          rank \in { [j \in 1..n |->
                        1 + Cardinality({k \in 1..n :
                              rows[k].created_at > rows[j].created_at})] } })

\* .limit(100)
limit_none(rows, n) == rows
limit(rows, n) == SubSeq(rows, 1, Min(n, Len(rows)))

\* JSON.stringify(data || [])
JSON_stringify(data) == [json |-> data]

\* new Date().toISOString()
toISOString(t) == <<"T", t>>

\* AsyncStorage.setItem / AsyncStorage.getItem
setItem(st, key, value) == [st EXCEPT ![key] = Some(value)]
getItem(st, key) == st[key]

\* (await AsyncStorage.getItem('lastSync')) || 'Never'
lastSyncOrNever(st) ==
    IF getItem(st, "lastSync") = Null THEN "Never" ELSE getItem(st, "lastSync")[1]

\* the answer of the backend to a query: { data, error }
FetchOutcomes == {"ok", "error"}
NetworkError == [message |-> "Network request failed"]
Response(outcome, rows) ==
    IF outcome = "ok" THEN [data |-> Some(rows), error |-> Null]
    ELSE [data |-> Null, error |-> Some(NetworkError)]

\* if (error) throw error
Throws_never(response) == FALSE
Throws(response) == response.error # Null

\* data || []
dataOrEmpty(response) ==
    IF response.data = Null THEN <<>> ELSE response.data[1]

\* if (this.syncInProgress) return this.getSyncStatus()
Guarded_never(flag) == FALSE
Guarded(flag) == flag

\* the awaits of syncData at which the in-progress guard is still held
Running == {"syncOrganizations", "syncMessages", "setLastSync", "finally"}

Inserted(rows) == Cardinality({i \in DOMAIN rows : rows[i].created_at > 0})

SyncBackendInit ==
    /\ configured \in BOOLEAN
    /\ user = Null
    /\ organizations = <<Acme("verified"), Tech("verified")>>
    /\ organization_wallets = <<>>
    /\ verified_messages = StoredMessages(SyncLimit)
    /\ message_verification_attempts = <<>>

SyncUnchanged == UNCHANGED <<ExtractVars, PipeVars, ContextVars, configured, user,
                             organization_wallets, message_verification_attempts>>

\* syncData up to its first await: the guard is tested and set in the same
\* turn in which the call is made
syncData(src) ==
    /\ Len(syncCalls) < MaxSyncCalls
    /\ syncCalls' = Append(syncCalls,
          [src |-> src,
           pc |-> IF Guarded(syncInProgress) THEN "getSyncStatus"
                  ELSE "syncOrganizations",
           errors |-> <<>>,
           status |-> Null,
           \* what the call found: the mirror, and a run holding the guard
           cache |-> storage,
           overlap |-> \E j \in DOMAIN syncCalls : syncCalls[j].pc \in Running,
           completed |-> Null])
    /\ syncInProgress' = (IF Guarded(syncInProgress) THEN syncInProgress ELSE TRUE)
    /\ UNCHANGED <<storage, fetchLog, clock, organizations, verified_messages>>
    /\ SyncUnchanged

\* forcSync
ForcSync ==
    /\ syncData("forcSync")
    /\ UNCHANGED <<syncInterval, timers>>

\* the callback of setInterval
TimerFires ==
    /\ timers # {}
    /\ syncData("timer")
    /\ UNCHANGED <<syncInterval, timers>>

\* setInterval: a new interval timer, while fewer than n are live; the
\* handle held before is overwritten, its timer is not cleared
setInterval(n) ==
    /\ Cardinality(timers) < n
    /\ LET h == CHOOSE i \in 1..n :
                   i \notin timers /\ \A m \in 1..(i - 1) : m \in timers
       IN /\ timers' = timers \cup {h}
          /\ syncInterval' = Some(h)

\* startAutoSync
StartAutoSync ==
    /\ setInterval(MaxTimers)
    /\ UNCHANGED <<syncInProgress, storage, syncCalls, fetchLog, clock,
                   organizations, verified_messages>>
    /\ SyncUnchanged

\* stopAutoSync
StopAutoSync ==
    /\ IF syncInterval # Null
       THEN /\ timers' = timers \ {syncInterval[1]}
            /\ syncInterval' = Null
       ELSE UNCHANGED <<timers, syncInterval>>
    /\ UNCHANGED <<syncInProgress, storage, syncCalls, fetchLog, clock,
                   organizations, verified_messages>>
    /\ SyncUnchanged

\* catch (error) { errors.push(error.message) } finally { syncInProgress = false }
Caught_held(k, error) ==
    /\ syncCalls' = [syncCalls EXCEPT ![k].pc = "return",
                                      ![k].errors = Append(@, error.message)]
    /\ syncInProgress' = syncInProgress
    /\ storage' = storage
Caught(k, error) ==
    /\ syncCalls' = [syncCalls EXCEPT ![k].pc = "return",
                                      ![k].errors = Append(@, error.message)]
    /\ syncInProgress' = FALSE
    /\ storage' = storage

\* syncOrganizations: the answer to the organizations query arrives
OrganizationsResponse ==
    \E k \in DOMAIN syncCalls, outcome \in FetchOutcomes :
        /\ syncCalls[k].pc = "syncOrganizations"
        /\ outcome = "ok" => configured
        /\ \E response \in {Response(outcome, verifiedOnly(organizations))} :
              /\ fetchLog' = Append(fetchLog,
                    [call |-> k, table |-> "organizations", at |-> clock,
                     error |-> response.error, data |-> response.data,
                     seen |-> organizations])
              /\ IF Throws(response)
                 THEN Caught(k, response.error[1])
                 ELSE /\ storage' = setItem(storage, "cached_organizations",
                                            JSON_stringify(dataOrEmpty(response)))
                      /\ syncCalls' = [syncCalls EXCEPT ![k].pc = "syncMessages"]
                      /\ syncInProgress' = syncInProgress
        /\ UNCHANGED <<syncInterval, timers, clock, organizations, verified_messages>>
        /\ SyncUnchanged

\* syncMessages: the answer to the verified_messages query arrives
MessagesResponse ==
    \E k \in DOMAIN syncCalls, outcome \in FetchOutcomes :
        /\ syncCalls[k].pc = "syncMessages"
        /\ outcome = "ok" => configured
        /\ \E response \in {Response(outcome,
                   limit(orderDesc(verifiedOnly(verified_messages)), SyncLimit))} :
              /\ fetchLog' = Append(fetchLog,
                    [call |-> k, table |-> "verified_messages", at |-> clock,
                     error |-> response.error, data |-> response.data,
                     seen |-> Len(verified_messages)])
              /\ IF Throws(response)
                 THEN Caught(k, response.error[1])
                 ELSE /\ storage' = setItem(storage, "cached_messages",
                                            JSON_stringify(dataOrEmpty(response)))
                      /\ syncCalls' = [syncCalls EXCEPT ![k].pc = "setLastSync"]
                      /\ syncInProgress' = syncInProgress
        /\ UNCHANGED <<syncInterval, timers, clock, organizations, verified_messages>>
        /\ SyncUnchanged

\* AsyncStorage.setItem('lastSync', new Date().toISOString())
SetLastSync ==
    \E k \in DOMAIN syncCalls :
        /\ syncCalls[k].pc = "setLastSync"
        /\ storage' = setItem(storage, "lastSync", toISOString(clock))
        /\ syncCalls' = [syncCalls EXCEPT ![k].pc = "finally",
                                          ![k].completed = Some(clock)]
        /\ UNCHANGED <<syncInProgress, syncInterval, timers, fetchLog, clock,
                       organizations, verified_messages>>
        /\ SyncUnchanged

\* finally { this.syncInProgress = false } of a run without error
Finally ==
    \E k \in DOMAIN syncCalls :
        /\ syncCalls[k].pc = "finally"
        /\ syncInProgress' = FALSE
        /\ syncCalls' = [syncCalls EXCEPT ![k].pc = "return"]
        /\ UNCHANGED <<syncInterval, timers, storage, fetchLog, clock,
                       organizations, verified_messages>>
        /\ SyncUnchanged

\* the status syncData returns at its end
ReturnStatus ==
    \E k \in DOMAIN syncCalls :
        /\ syncCalls[k].pc = "return"
        /\ syncCalls' = [syncCalls EXCEPT
              ![k].pc = "done",
              ![k].status = Some([lastSync |-> lastSyncOrNever(storage),
                                  pendingUploads |-> 0,
                                  syncInProgress |-> FALSE,
                                  errors |-> syncCalls[k].errors])]
        /\ UNCHANGED <<syncInProgress, syncInterval, timers, storage, fetchLog,
                       clock, organizations, verified_messages>>
        /\ SyncUnchanged

\* getSyncStatus, returned by a call that found the guard set
GetSyncStatus ==
    \E k \in DOMAIN syncCalls :
        /\ syncCalls[k].pc = "getSyncStatus"
        /\ syncCalls' = [syncCalls EXCEPT
              ![k].pc = "done",
              ![k].status = Some([lastSync |-> lastSyncOrNever(storage),
                                  pendingUploads |-> 0,
                                  syncInProgress |-> syncInProgress,
                                  errors |-> <<>>])]
        /\ UNCHANGED <<syncInProgress, syncInterval, timers, storage, fetchLog,
                       clock, organizations, verified_messages>>
        /\ SyncUnchanged

\* another client stores a message (created_at DEFAULT now())
RemoteInsert ==
    /\ Inserted(verified_messages) < MaxInserts
    /\ verified_messages' = Append(verified_messages,
          MessageRow(Inserted(verified_messages) + 1, "verified"))
    /\ UNCHANGED <<SyncVars, organizations>>
    /\ SyncUnchanged

\* an administrator withdraws the verification of the first organization
ReviewOrganization ==
    /\ organizations[1].verification_status = "verified"
    /\ organizations' = [organizations EXCEPT ![1].verification_status = "rejected"]
    /\ UNCHANGED <<SyncVars, verified_messages>>
    /\ SyncUnchanged

\* time passes
Tick ==
    /\ clock < MaxClock
    /\ clock' = clock + 1
    /\ UNCHANGED <<syncInProgress, syncInterval, timers, storage, syncCalls,
                   fetchLog, organizations, verified_messages>>
    /\ SyncUnchanged

SyncInit == ExtractIdle /\ SyncBackendInit /\ PipeInit /\ SyncIdle /\ ContextIdle

SyncNext ==
    \/ ForcSync
    \/ TimerFires
    \/ StartAutoSync
    \/ StopAutoSync
    \/ OrganizationsResponse
    \/ MessagesResponse
    \/ SetLastSync
    \/ Finally
    \/ ReturnStatus
    \/ GetSyncStatus
    \/ RemoteInsert
    \/ ReviewOrganization
    \/ Tick

SyncSpec == SyncInit /\ [][SyncNext]_vars

\* Every request of a run is answered (with data or with an error), the
\* write of lastSync completes and the finally block runs: the steps of a
\* run that has started are taken in the end.
SyncFairness ==
    /\ WF_vars(OrganizationsResponse)
    /\ WF_vars(MessagesResponse)
    /\ WF_vars(SetLastSync)
    /\ WF_vars(Finally)

SyncLiveSpec == SyncInit /\ [][SyncNext]_vars /\ SyncFairness

(***************************************************************************)
(* The auto-sync timer on its own: specification TimerSpec.  startAutoSync *)
(* and stopAutoSync are called in any order, startAutoSync also while the  *)
(* timer of an earlier call is live, and the runs the timers start go      *)
(* through their steps.                                                    *)
(***************************************************************************)
\* startAutoSync, also when MaxTimers timers are live
StartAutoSyncAgain ==
    /\ setInterval(MaxTimers + 1)
    /\ UNCHANGED <<syncInProgress, storage, syncCalls, fetchLog, clock,
                   organizations, verified_messages>>
    /\ SyncUnchanged

TimerNext ==
    \/ StartAutoSyncAgain
    \/ StopAutoSync
    \/ TimerFires
    \/ OrganizationsResponse
    \/ MessagesResponse
    \/ SetLastSync
    \/ Finally
    \/ ReturnStatus
    \/ GetSyncStatus

TimerSpec == SyncInit /\ [][TimerNext]_vars

\* C25: once stopAutoSync has returned, and until startAutoSync is called
\* again, no interval timer is live and no run of syncData is started by a
\* timer, whatever calls of startAutoSync and stopAutoSync came before.
\* (The handle is null exactly from a stopAutoSync, or from the start, to
\* the next startAutoSync.)
C25_StopLeavesNoTimer ==
    /\ [](syncInterval = Null => timers = {})
    /\ [][ (syncInterval = Null /\ Len(syncCalls') = Len(syncCalls) + 1) =>
              syncCalls'[Len(syncCalls')].src # "timer" ]_vars

(***************************************************************************)
(* Properties of the Local Cache sync (specification SyncSpec).            *)
(***************************************************************************)
\* the queries call k sent for a table, as indices of fetchLog
Fetches(k, table) ==
    {i \in DOMAIN fetchLog : fetchLog[i].call = k /\ fetchLog[i].table = table}
Tables == {"organizations", "verified_messages"}

\* C2: a syncData call made while a run holds the in-progress guard (from
\* the timer or from forcSync) sends no query and returns the status; at any
\* time at most one call is inside a fetch cycle.
C2_ConcurrentCallDoesNotFetch ==
    /\ Cardinality({k \in DOMAIN syncCalls : syncCalls[k].pc \in Running}) <= 1
    /\ \A k \in DOMAIN syncCalls :
          syncCalls[k].overlap =>
              /\ \A t \in Tables : Fetches(k, t) = {}
              /\ syncCalls[k].pc \in {"getSyncStatus", "done"}
              /\ syncCalls[k].status # Null =>
                    syncCalls[k].status[1].errors = <<>>

\* a timer call arrived during a run that fetched, and has returned
C2_Witness ==
    \E j, k \in DOMAIN syncCalls :
        /\ j # k
        /\ Fetches(j, "organizations") # {}
        /\ syncCalls[k].overlap
        /\ syncCalls[k].src = "timer"
        /\ syncCalls[k].pc = "done"

\* the calls of syncData that hold the in-progress guard
Holders == {k \in DOMAIN syncCalls : syncCalls[k].pc \in Running}

\* C24: every run of syncData that has set the in-progress guard sets it
\* back to false in the end, whether its fetches succeed or fail.  The guard
\* is set exactly while a run is between its start and its finally block
\* and at most one run is, so the guard being set leads to the guard being
\* clear with that run ended; and a call of syncData made when no run is in
\* progress starts a run.
C24_RunReleasesGuard ==
    /\ [](syncInProgress <=> Holders # {})
    /\ [](Cardinality(Holders) <= 1)
    /\ syncInProgress ~> ~syncInProgress
    /\ [][ (Len(syncCalls') = Len(syncCalls) + 1 /\ Holders = {}) =>
              /\ syncCalls'[Len(syncCalls')].pc = "syncOrganizations"
              /\ syncInProgress' ]_vars

\* a run whose fetch failed has ended with the guard released, and a call
\* made after it has started a second run
C24_Witness ==
    \E j, k \in DOMAIN syncCalls :
        /\ j < k
        /\ syncCalls[j].errors # <<>>
        /\ syncCalls[j].pc \in {"return", "done"}
        /\ ~syncCalls[k].overlap
        /\ syncCalls[k].pc = "syncMessages"
        /\ syncInProgress

\* C8 as stated: after a run in which a fetch failed, cached_organizations,
\* cached_messages and lastSync are what they were when the run started,
\* the error is in the returned status and no query was sent twice.
C8_FailedSyncLeavesCacheUntouched ==
    (fetchLog # <<>> /\ fetchLog[Len(fetchLog)].error # Null) =>
        LET failed == fetchLog[Len(fetchLog)]
            call == syncCalls[failed.call]
        IN /\ storage = call.cache
           /\ call.errors = <<failed.error[1].message>>
           /\ call.status # Null => call.status[1].errors = call.errors
           /\ \A t \in Tables : Cardinality(Fetches(failed.call, t)) <= 1

\* C8 amended: after a run in which a fetch failed, the entry of the failed
\* fetch, the entries of the fetches after it and lastSync are what they
\* were when the run started, while cached_organizations has been
\* overwritten if the organizations fetch succeeded before the failure; the
\* error is in the returned status and no query was sent twice.
C8_FailedSyncKeepsUnfetchedEntries ==
    (fetchLog # <<>> /\ fetchLog[Len(fetchLog)].error # Null) =>
        LET failed == fetchLog[Len(fetchLog)]
            call == syncCalls[failed.call]
        IN /\ storage.lastSync = call.cache.lastSync
           /\ storage.cached_messages = call.cache.cached_messages
           /\ IF failed.table = "organizations"
              THEN storage.cached_organizations = call.cache.cached_organizations
              ELSE \E i \in Fetches(failed.call, "organizations") :
                      storage.cached_organizations =
                          Some(JSON_stringify(fetchLog[i].data[1]))
           /\ call.pc \in {"return", "done"}
           /\ call.errors = <<failed.error[1].message>>
           /\ call.status # Null => call.status[1].errors = call.errors
           /\ \A t \in Tables : Cardinality(Fetches(failed.call, t)) <= 1

\* the messages fetch of a run failed after its organizations fetch had
\* replaced a mirror written by an earlier run, and the run has returned
C8_Witness ==
    /\ fetchLog # <<>>
    /\ fetchLog[Len(fetchLog)].error # Null
    /\ fetchLog[Len(fetchLog)].table = "verified_messages"
    /\ LET call == syncCalls[fetchLog[Len(fetchLog)].call]
       IN /\ call.pc = "done"
          /\ call.cache.cached_organizations # Null
          /\ call.cache.cached_organizations # storage.cached_organizations

\* C9: when a run has fetched both tables without error and written
\* lastSync, cached_organizations is exactly the verified organizations the
\* run fetched, cached_messages is exactly the at most 100 most recent
\* verified messages it fetched, whatever was cached before, and lastSync is
\* the time at which the run completed.
C9_SuccessfulSyncReplacesMirror ==
    \A k \in DOMAIN syncCalls :
        syncCalls[k].pc = "finally" =>
            \E o \in Fetches(k, "organizations"), m \in Fetches(k, "verified_messages") :
                LET orgs == fetchLog[o].data[1]
                    msgs == fetchLog[m].data[1]
                    table == SubSeq(verified_messages, 1, fetchLog[m].seen)
                IN /\ storage.cached_organizations = Some([json |-> orgs])
                   /\ storage.cached_messages = Some([json |-> msgs])
                   /\ \A r \in Range(fetchLog[o].seen) :
                         r.verification_status = "verified" <=> r \in Range(orgs)
                   /\ Len(orgs) = Cardinality(Range(orgs))
                   /\ Len(msgs) <= SyncLimit
                   /\ \A i \in DOMAIN msgs :
                         /\ msgs[i].verification_status = "verified"
                         /\ msgs[i] \in Range(table)
                         /\ i > 1 => msgs[i].created_at < msgs[i - 1].created_at
                   /\ \A r \in Range(table) :
                         (r.verification_status = "verified" /\ r \notin Range(msgs))
                            => /\ Len(msgs) = SyncLimit
                               /\ r.created_at < msgs[SyncLimit].created_at
                   /\ syncCalls[k].completed # Null
                   /\ storage.lastSync = Some(<<"T", syncCalls[k].completed[1]>>)
                   /\ syncCalls[k].completed[1] >= fetchLog[o].at
                   /\ syncCalls[k].completed[1] >= fetchLog[m].at

\* a run completed over a mirror written by an earlier run, after an
\* organization lost its verification and with more than 100 verified
\* messages stored
C9_Witness ==
    \E k \in DOMAIN syncCalls :
        /\ syncCalls[k].pc = "finally"
        /\ syncCalls[k].cache.cached_organizations # Null
        /\ syncCalls[k].cache.cached_organizations # storage.cached_organizations
        /\ syncCalls[k].cache.cached_messages # Null
        /\ syncCalls[k].cache.cached_messages # storage.cached_messages
        /\ Len(verifiedOnly(verified_messages)) > SyncLimit
        /\ Len(storage.cached_messages[1].json) = SyncLimit

(***************************************************************************)
(* Remote Verifier and Sender Resolver on their own: specification         *)
(* VerifierSpec.  The directory and the call are drawn, then verifyMessage *)
(* of lib/supabase.ts or resolveSenderAddress is applied once.             *)
(***************************************************************************)
\* the arguments of testSingleVerification
TestContent ==
    << "T", "e", "s", "t", " ", "m", "e", "s", "s", "a", "g", "e", " ", "f", "o", "r",
       " ", "v", "e", "r", "i", "f", "i", "c", "a", "t", "i", "o", "n" >>
TestSignature ==
    << "a", "1", "b", "2", "c", "3", "d", "4", "e", "5", "f", "6", "7", "8", "9", "0",
       "1", "2", "3", "4", "5", "6", "7", "8", "9", "0", "1", "2", "3", "4", "5", "6",
       "7", "8", "9", "0", "a", "b", "c", "d", "e", "f", "1", "2", "3", "4", "5", "6",
       "7", "8", "9", "0", "a", "b", "c", "d", "e", "f", "1", "2", "3", "4", "5", "6",
       "7", "8", "9", "0", "1", "2", "3", "4", "5", "6", "7", "8", "9", "0", "1", "2",
       "3", "4", "5", "6", "7", "8", "9", "0", "a", "b", "c", "d", "e", "f", "1", "2",
       "3", "4", "5", "6", "7", "8", "9", "0", "a", "b", "c", "d", "e", "f", "1", "2",
       "3", "4", "5", "6" >>

\* a secondary wallet of Acme Bank, and an address no organization has
SecondAddr == <<"0", "x">> \o Rep("3", 40)
UnknownAddr == <<"0", "x">> \o Rep("9", 40)
OtherPhone == "+1-555-9999"
Statuses == {"pending", "verified", "rejected", "failed"}

VerifierDirectories ==
    { <<Acme(a), Tech(t)>> : a \in Statuses, t \in {"verified", "pending"} }
VerifierWallets ==
    { <<>> } \cup
    { << [organization_id |-> "org-acme", wallet_address |-> SecondAddr,
          is_active |-> active] >> : active \in BOOLEAN }

\* verifyMessage(messageContent, signature, senderAddress)
VerifierContents == {<<>>, Space, Word, TestContent}
VerifierSignatures ==
    { SigShort, Rep("a", 63), Sig64, TestSignature, Rep("a", 127),
      Rep("a", 128), Rep("g", 128) }
VerifierSenders == {DemoAddr, SecondAddr, UnknownAddr}

\* resolveSenderAddress(extractedAddress, senderPhone)
Hints == {<<>>, Word, <<"d","i","d",":","e","x",":","o","1">>, UnknownAddr}
Phones == {Null, Some(TechPhone), Some(OtherPhone)}

VerifierInit ==
    /\ configured \in BOOLEAN
    /\ user = Null
    /\ organizations \in VerifierDirectories
    /\ organization_wallets \in VerifierWallets
    /\ verified_messages = <<>>
    /\ message_verification_attempts = <<>>

VerifierUnchanged == UNCHANGED <<BackendVars, ExtractVars, SyncVars, ContextVars>>

\* verifyMessage of lib/supabase.ts, called as the test panel calls it
LibVerifyMessage ==
    /\ lastCall.op = "none"
    /\ \E messageContent \in VerifierContents, signature \in VerifierSignatures,
          senderAddress \in VerifierSenders,
          rpc \in IF configured THEN RpcOutcomes ELSE {"none"} :
           lastCall' = [op |-> "lib.verifyMessage", content |-> messageContent,
                        signature |-> signature, sender |-> senderAddress,
                        rpc |-> rpc,
                        remote |-> lib_verifyMessage(messageContent, signature,
                                                     senderAddress, rpc)]
    /\ VerifierUnchanged

\* resolveSenderAddress
ResolveSenderAddress ==
    /\ lastCall.op = "none"
    /\ \E extractedAddress \in Hints, senderPhone \in Phones :
       \E dir \in IF senderPhone = Null THEN {"none"} ELSE DirOutcomes :
           lastCall' = [op |-> "resolveSenderAddress", hint |-> extractedAddress,
                        phone |-> senderPhone, dir |-> dir,
                        resolved |-> resolveSenderAddress(extractedAddress,
                                                          senderPhone, dir)]
    /\ VerifierUnchanged

VerifierStart == ExtractIdle /\ VerifierInit /\ PipeInit /\ SyncIdle /\ ContextIdle

VerifierNext ==
    \/ LibVerifyMessage
    \/ ResolveSenderAddress

VerifierSpec == VerifierStart /\ [][VerifierNext]_vars

\* the call recorded is a call of verifyMessage that the hosted procedure
\* answered
Hosted == lastCall.op = "lib.verifyMessage" /\ configured /\ lastCall.rpc = "ok"
\* the row the Remote Verifier returned
Row == lastCall.remote.data[1]

\* the verified organizations that own the address, by their primary wallet
\* or by an active secondary wallet
VerifiedOwners(addr) ==
    { i \in DOMAIN organizations :
        /\ organizations[i].verification_status = "verified"
        /\ \/ organizations[i].wallet_address = addr
           \/ \E w \in DOMAIN organization_wallets :
                /\ organization_wallets[w].organization_id = organizations[i].id
                /\ organization_wallets[w].wallet_address = addr
                /\ organization_wallets[w].is_active = TRUE }

\* C14: when the hosted procedure answers, it reports is_valid = true only
\* for a sender address that is the primary wallet or an active secondary
\* wallet of a verified organization; for an address no verified
\* organization owns it reports is_valid = false and says why in the details.
C14_ValidOnlyForVerifiedOwner ==
    (Hosted /\ lastCall.remote.data # Null) =>
        /\ Row.is_valid = Some(TRUE) => VerifiedOwners(lastCall.sender) # {}
        /\ VerifiedOwners(lastCall.sender) = {} =>
               /\ Row.is_valid = Some(FALSE)
               /\ Row.organization_id = Null
               /\ Row.verification_details.error
                      = Some("Organization not found or not verified")

\* the procedure has accepted a signature sent from an active secondary
\* wallet of Acme Bank, which is verified
C14_Witness ==
    /\ Hosted
    /\ lastCall.sender = SecondAddr
    /\ VerifiedOwners(SecondAddr) = {1}
    /\ organization_wallets # <<>> /\ organization_wallets[1].is_active
    /\ Row.is_valid = Some(TRUE)
    /\ Row.organization_name = Some("Acme Bank")

\* C15: for the content, the signature and the sender of
\* testSingleVerification, with Acme Bank verified, the hosted procedure
\* returns is_valid = true and the name "Acme Bank".
C15_TestVerificationAccepted ==
    ( /\ Hosted
      /\ lastCall.content = TestContent
      /\ lastCall.signature = TestSignature
      /\ lastCall.sender = DemoAddr
      /\ organizations[1] = Acme("verified") ) =>
        /\ lastCall.remote.data # Null
        /\ Row.is_valid = Some(TRUE)
        /\ Row.organization_name = Some("Acme Bank")

\* C16: whatever the content and the sender, the Remote Verifier, hosted or
\* stand-in, never reports is_valid = true for a signature of fewer than 64
\* characters.
C16_ShortSignatureNeverValid ==
    ( /\ lastCall.op = "lib.verifyMessage"
      /\ Len(lastCall.signature) < 64
      /\ lastCall.remote.data # Null ) =>
        Row.is_valid # Some(TRUE)

\* the hosted procedure has found the verified organization of the sender
\* and rejected a signature of 10 characters
C16_Witness ==
    /\ Hosted
    /\ lastCall.signature = SigShort
    /\ lastCall.content = TestContent
    /\ VerifiedOwners(lastCall.sender) # {}
    /\ Row.is_valid = Some(FALSE)
    /\ Row.verification_details.error = Some("Invalid signature format")

\* C17: without a configured backend verifyMessage answers is_valid = true
\* exactly when the signature it is given has at least 64 characters and the
\* content is not empty, and the details of every such answer carry the
\* method "mock".
C17_StandInHeuristicFlagged ==
    (lastCall.op = "lib.verifyMessage" /\ ~configured) =>
        /\ lastCall.remote.error = Null
        /\ lastCall.remote.data # Null
        /\ Row.is_valid \in {Some(TRUE), Some(FALSE)}
        /\ Row.is_valid = Some(TRUE) <=>
               (Len(lastCall.signature) >= 64 /\ Len(lastCall.content) > 0)
        /\ Row.verification_details.method = "mock"

\* the stand-in has approved a signature of 64 characters that is not
\* hexadecimal, for a sender no organization has
C17_Witness ==
    /\ lastCall.op = "lib.verifyMessage" /\ ~configured
    /\ lastCall.signature = Sig64
    /\ lastCall.sender = UnknownAddr
    /\ lastCall.content = Word
    /\ Row.is_valid = Some(TRUE)
    /\ Row.verification_details.method = "mock"

\* C19: resolveSenderAddress returns a hint that is not empty and begins
\* with "did:" or "0x" as it is, whatever the phone number and whatever the
\* directory would answer; for any other hint, when a phone number is given
\* and the directory answers with a verified organization whose metadata
\* holds it, the wallet address of such an organization is returned.
C19_HintThenDirectory ==
    lastCall.op = "resolveSenderAddress" =>
        \A shaped \in { /\ Len(lastCall.hint) >= 2
                        /\ \/ SubSeq(lastCall.hint, 1, 2) = <<"0", "x">>
                           \/ /\ Len(lastCall.hint) >= 4
                              /\ SubSeq(lastCall.hint, 1, 4) = <<"d", "i", "d", ":">> } :
            /\ shaped =>
                   lastCall.resolved = [threw |-> FALSE, fallback |-> FALSE,
                                        address |-> Some(lastCall.hint)]
            /\ ( /\ ~shaped
                 /\ lastCall.phone # Null
                 /\ configured /\ lastCall.dir = "ok"
                 /\ \E i \in DOMAIN organizations :
                        /\ organizations[i].verification_status = "verified"
                        /\ organizations[i].phone = lastCall.phone ) =>
                   /\ ~lastCall.resolved.threw /\ ~lastCall.resolved.fallback
                   /\ \E i \in DOMAIN organizations :
                        /\ organizations[i].verification_status = "verified"
                        /\ organizations[i].phone = lastCall.phone
                        /\ lastCall.resolved.address
                               = Some(organizations[i].wallet_address)

\* the resolver was given a did: hint together with the phone number of a
\* verified organization, and returned the hint
C19_Witness ==
    /\ lastCall.op = "resolveSenderAddress"
    /\ lastCall.hint = <<"d","i","d",":","e","x",":","o","1">>
    /\ lastCall.phone = Some(TechPhone)
    /\ configured /\ lastCall.dir = "ok"
    /\ organizations[2] = Tech("verified")
    /\ lastCall.resolved.address = Some(lastCall.hint)

(***************************************************************************)
(* VerificationProvider and the scanner (specification ContextSpec).       *)
(* Each function of the provider is a sequence of steps separated by its   *)
(* awaits; calls of several functions are in flight at once.  The loading  *)
(* flag and the error text of the provider are left out.                   *)
(***************************************************************************)
\* the names of the organizations, letter by letter, as a scanned payload
\* spells a name
Spelled(name) ==
    CASE name = "Acme Bank" -> <<"A", "c", "m", "e", " ", "B", "a", "n", "k">>
      [] name = "Tech Solutions Inc" ->
             <<"T", "e", "c", "h", " ", "S", "o", "l", "u", "t", "i", "o", "n", "s",
               " ", "I", "n", "c">>
      [] name = "CryptoSecure Technologies" ->
             <<"C", "r", "y", "p", "t", "o", "S", "e", "c", "u", "r", "e", " ",
               "T", "e", "c", "h", "n", "o", "l", "o", "g", "i", "e", "s">>
      [] OTHER -> <<>>

\* Message of VerificationContext (signature, hash and verificationDetails
\* are left out)
Message(id, content, timestamp, verified, sender, type, orgId, orgName) ==
    [id |-> id, content |-> content, timestamp |-> timestamp, verified |-> verified,
     sender |-> sender, type |-> type, organizationId |-> orgId,
     organizationName |-> orgName]

\* the two messages getVerifiedMessages makes up without a backend
MockMessages(currentTime) ==
    << [id |-> [of |-> "msg", n |-> currentTime, k |-> 1],
        message_content |-> <<"b", "a", "l", "a", "n", "c", "e">>,
        sender_address |-> Some(DemoAddr), verification_status |-> "verified",
        created_at |-> currentTime, organization_id |-> Null,
        organization |-> Some("CryptoSecure Technologies")],
       [id |-> [of |-> "msg", n |-> currentTime, k |-> 2],
        message_content |-> <<"l", "o", "g", "i", "n">>,
        sender_address |-> Some(DemoAddr), verification_status |-> "verified",
        created_at |-> currentTime, organization_id |-> Null,
        organization |-> Some("FinanceFlow Digital")] >>

\* select *, organization:organizations(name, ...) order by created_at desc:
\* the rows of verified_messages, newest first, each with the name of its
\* organization
JoinedMessages ==
    [i \in 1..Len(verified_messages) |->
        The({ [id |-> [of |-> "row", n |-> row.id, k |-> 0],
               message_content |-> row.message_content,
               sender_address |-> Some(row.sender_address),
               verification_status |-> row.verification_status,
               created_at |-> row.id,
               organization_id |-> row.organization_id,
               organization |->
                   IF \E o \in DOMAIN organizations :
                          Some(organizations[o].id) = row.organization_id
                   THEN Some(organizations[
                                CHOOSE o \in DOMAIN organizations :
                                    Some(organizations[o].id) = row.organization_id].name)
                   ELSE Null]
              : row \in {verified_messages[Len(verified_messages) + 1 - i]} })]

\* getVerifiedMessages of lib/supabase.ts
getVerifiedMessages(n, outcome) ==
    IF ~configured THEN [data |-> MockMessages(clock), error |-> Null]
    ELSE IF outcome = "error"
    THEN [data |-> <<>>, error |-> Some("fetch failed")]
    ELSE [data |-> limit(JoinedMessages, n), error |-> Null]

\* loadMessages: a fetched row in the local format
ConvertMessage(msg) ==
    Message(msg.id, msg.message_content, msg.created_at,
            IF msg.verification_status = "verified" THEN Some(TRUE)
            ELSE IF msg.verification_status = "failed" THEN Some(FALSE) ELSE Null,
            msg.sender_address, "MANUAL", msg.organization_id, msg.organization)

\* a call of a function of the provider, or of the scanner's handler, at its
\* first await: captured is the messages value of the render the function
\* was made in, seen the calls that had returned, overlap whether another
\* processSMSMessage call was between its start and its setMessages
Call(op, pc, text, phone, qr) ==
    [op |-> op, pc |-> pc, text |-> text, phone |-> phone, qr |-> qr,
     captured |-> messages, updated |-> <<>>, valid |-> Null, name |-> Null,
     loaded |-> FALSE,
     seen |-> {j \in DOMAIN calls : calls[j].pc = "done"},
     overlap |-> \E j \in DOMAIN calls :
                     /\ calls[j].op = "processSMSMessage"
                     /\ calls[j].pc = "verifySMSMessage",
     shown |-> Null]

\* the texts processSMSMessage is called with: one without a signature,
\* one signed by Acme Bank's wallet
ContextSmsCalls == { <<Text, Null>>, <<TextWeb3, Null>> }
\* the payloads that are scanned
ContextQrInputs ==
    { QrPayload("text", Null, Null, Null),
      QrSigned,
      QrNamed,
      [QrSigned EXCEPT !.issuer = Some(JString(Spelled("Acme Bank")))],
      [QrSigned EXCEPT !.organizationName = Some(JString(Spelled("Acme Bank")))] }
\* the requests of a verification are answered, or the Remote Verifier fails
ContextEnvs ==
    { e \in EnvsNow : e.rpc \in {"ok", "error"} /\ e.store = "ok"
                       /\ e.auth = "ok" /\ e.attempt = "ok" }

ContextUnchanged ==
    UNCHANGED <<ExtractVars, PipeVars, configured, user, organizations,
                organization_wallets, syncInProgress, syncInterval, timers,
                syncCalls, fetchLog, clock>>

\* processSMSMessage up to await verifySMSMessage
ProcessSMSMessage ==
    /\ Len(calls) < MaxCalls
    /\ \E in \in ContextSmsCalls :
           calls' = Append(calls, Call("processSMSMessage", "verifySMSMessage",
                                       in[1], in[2], Null))
    /\ UNCHANGED <<messages, storage, verified_messages,
                   message_verification_attempts>>
    /\ ContextUnchanged

\* processSMSMessage from the result of verifySMSMessage up to
\* await AsyncStorage.setItem: the new message is put before the messages
\* the function captured
SMSVerificationResult ==
    \E k \in DOMAIN calls :
        /\ calls[k].pc = "verifySMSMessage"
        /\ \E env \in ContextEnvs :
           \E out \in {verifySMSMessage(calls[k].text, calls[k].phone, "ok", env)} :
           \E updatedMessages \in
                 { << Message([of |-> "now", n |-> clock, k |-> 0], calls[k].text,
                              clock, out.result.isValid, calls[k].phone, "SMS",
                              out.result.organizationId,
                              out.result.organizationName) >>
                   \o calls[k].captured } :
               /\ verified_messages' = out.verified_messages
               /\ message_verification_attempts' = out.message_verification_attempts
               /\ messages' = updatedMessages
               /\ calls' = [calls EXCEPT ![k].pc = "setItem",
                                         ![k].updated = updatedMessages,
                                         ![k].valid = out.result.isValid,
                                         ![k].name = out.result.organizationName]
        /\ UNCHANGED storage
        /\ ContextUnchanged

\* AsyncStorage.setItem("messages", ...) of processSMSMessage and of
\* loadMessages, and their return
SetItem ==
    \E k \in DOMAIN calls :
        /\ calls[k].pc = "setItem"
        /\ storage' = setItem(storage, "messages", JSON_stringify(calls[k].updated))
        /\ calls' = [calls EXCEPT ![k].pc =
                        IF calls[k].op = "handleBarCodeScanned" THEN "navigate"
                        ELSE "done"]
        /\ UNCHANGED <<messages, verified_messages, message_verification_attempts>>
        /\ ContextUnchanged

\* loadMessages (refreshMessages) up to await getVerifiedMessages(100)
LoadMessages ==
    /\ Len(calls) < MaxCalls
    /\ calls' = Append(calls, Call("loadMessages", "getVerifiedMessages",
                                   <<>>, Null, Null))
    /\ UNCHANGED <<messages, storage, verified_messages,
                   message_verification_attempts>>
    /\ ContextUnchanged

\* loadMessages from the answer of getVerifiedMessages up to its next
\* await: of loadLocalMessages after an error, of AsyncStorage.setItem
\* after the fetched messages have replaced the list
VerifiedMessagesFetched ==
    \E k \in DOMAIN calls :
        /\ calls[k].pc = "getVerifiedMessages"
        /\ \E outcome \in IF configured THEN {"ok", "error"} ELSE {"ok"} :
           \E fetched \in {getVerifiedMessages(100, outcome)} :
              IF fetched.error # Null
              THEN /\ calls' = [calls EXCEPT ![k].pc = "getItem"]
                   /\ UNCHANGED messages
              ELSE \E convertedMessages \in
                        { [i \in DOMAIN fetched.data |->
                              ConvertMessage(fetched.data[i])] } :
                     /\ messages' = convertedMessages
                     /\ calls' = [calls EXCEPT ![k].pc = "setItem",
                                               ![k].updated = convertedMessages,
                                               ![k].loaded = TRUE]
        /\ UNCHANGED <<storage, verified_messages, message_verification_attempts>>
        /\ ContextUnchanged

\* loadLocalMessages
LoadLocalMessages ==
    \E k \in DOMAIN calls :
        /\ calls[k].pc = "getItem"
        /\ \E savedMessages \in {getItem(storage, "messages")} :
              messages' = IF savedMessages # Null THEN savedMessages[1].json
                          ELSE messages
        /\ calls' = [calls EXCEPT ![k].pc =
                        IF calls[k].op = "handleBarCodeScanned" THEN "navigate"
                        ELSE "done"]
        /\ UNCHANGED <<storage, verified_messages, message_verification_attempts>>
        /\ ContextUnchanged

\* handleBarCodeScanned up to await verifyQRMessage(data) of the provider,
\* which awaits verifyQRMessage of the service; if (scanned) return
HandleBarCodeScanned ==
    /\ Len(calls) < MaxCalls
    /\ ~ \E j \in DOMAIN calls :
           calls[j].op = "handleBarCodeScanned" /\ calls[j].pc # "done"
    /\ \E q \in ContextQrInputs :
           calls' = Append(calls, Call("handleBarCodeScanned", "verifyQRMessage",
                                       <<>>, Null, Some(q)))
    /\ UNCHANGED <<messages, storage, verified_messages,
                   message_verification_attempts>>
    /\ ContextUnchanged

\* verifyQRMessage of the provider from the result of the service: a valid
\* result is followed by refreshMessages, any other is returned
QRVerificationResult ==
    \E k \in DOMAIN calls :
        /\ calls[k].pc = "verifyQRMessage"
        /\ \E env \in ContextEnvs :
           \E out \in {verifyQRMessage(calls[k].qr[1], env)} :
               /\ verified_messages' = out.verified_messages
               /\ message_verification_attempts' = out.message_verification_attempts
               /\ calls' = [calls EXCEPT
                               ![k].pc = IF out.result.isValid = Some(TRUE)
                                         THEN "getVerifiedMessages" ELSE "navigate",
                               ![k].valid = out.result.isValid,
                               ![k].name = out.result.organizationName]
        /\ UNCHANGED <<messages, storage>>
        /\ ContextUnchanged

\* qrData.organizationName || qrData.issuer || 'Verified Organization'
ScannedOrganizationName(qrData) ==
    IF ~Falsy(qrData.organizationName) THEN qrData.organizationName[1].s
    ELSE IF ~Falsy(qrData.issuer) THEN qrData.issuer[1].s
    ELSE <<"V", "e", "r", "i", "f", "i", "e", "d", " ", "O", "r", "g", "a", "n",
           "i", "z", "a", "t", "i", "o", "n">>

\* handleBarCodeScanned after verifyQRMessage has returned: the result the
\* ScanResult screen is opened with
Navigate ==
    \E k \in DOMAIN calls :
        /\ calls[k].pc = "navigate"
        /\ calls' = [calls EXCEPT
               ![k].pc = "done",
               ![k].shown =
                   Some([verified |-> calls[k].valid,
                         organizationName |->
                             IF calls[k].valid = Some(TRUE)
                             THEN ScannedOrganizationName(calls[k].qr[1])
                             ELSE <<>>])]
        /\ UNCHANGED <<messages, storage, verified_messages,
                       message_verification_attempts>>
        /\ ContextUnchanged

\* time passes between the steps
ContextTick ==
    /\ clock < MaxClock
    /\ clock' = clock + 1
    /\ UNCHANGED <<ExtractVars, PipeVars, BackendVars, ContextVars, syncInProgress,
                   syncInterval, timers, storage, syncCalls, fetchLog>>

ContextNext ==
    \/ ProcessSMSMessage
    \/ SMSVerificationResult
    \/ SetItem
    \/ LoadMessages
    \/ VerifiedMessagesFetched
    \/ LoadLocalMessages
    \/ HandleBarCodeScanned
    \/ QRVerificationResult
    \/ Navigate
    \/ ContextTick

ContextSpec == Init /\ [][ContextNext]_vars

(***************************************************************************)
(* Properties of the provider and the scanner (specification ContextSpec). *)
(***************************************************************************)
\* the list the "messages" entry of the local storage holds
SavedMessages ==
    IF storage.messages = Null THEN <<>> ELSE storage.messages[1].json

\* the message call k of processSMSMessage made is in the list
Keeps(list, k) ==
    \E i \in DOMAIN list :
        list[i].type = "SMS" /\ list[i].content = calls[k].text

Added(k) == calls[k].op = "processSMSMessage" /\ calls[k].pc = "done"

\* C26: when two calls of processSMSMessage overlap (the second is made
\* before the first has set the list) and both have returned, the message
\* list and the stored "messages" entry hold the messages of both calls.
C26_OverlappingCallsKeepBoth ==
    \A j \in DOMAIN calls, k \in DOMAIN calls :
        ( /\ j < k /\ Added(j) /\ Added(k)
          /\ calls[k].overlap
          /\ calls[j].text # calls[k].text
          /\ \A c \in DOMAIN calls : calls[c].op = "processSMSMessage" ) =>
            /\ Keeps(messages, j) /\ Keeps(messages, k)
            /\ Keeps(SavedMessages, j) /\ Keeps(SavedMessages, k)

\* C27: a message processSMSMessage has added, valid or not, is in the
\* message list and in the stored "messages" entry after a loadMessages
\* that was called later, fetched the messages without an error and has
\* returned; the same for the refresh after a valid scan.
C27_AddedMessageSurvivesRefresh ==
    \A j \in DOMAIN calls, k \in DOMAIN calls :
        ( /\ calls[j].op = "processSMSMessage"
          /\ j \in calls[k].seen
          /\ calls[k].op \in {"loadMessages", "handleBarCodeScanned"}
          /\ calls[k].loaded
          /\ calls[k].pc = "done" ) =>
            Keeps(messages, j) /\ Keeps(SavedMessages, j)

\* C28: when the scanner opens the result screen with verified = true, the
\* organization name of the result is the name the Remote Verifier
\* returned for the sender of the payload.
C28_ScannerShowsVerifiedName ==
    \A k \in DOMAIN calls :
        ( /\ calls[k].op = "handleBarCodeScanned"
          /\ calls[k].shown # Null
          /\ calls[k].shown[1].verified = Some(TRUE) ) =>
            /\ calls[k].name # Null
            /\ calls[k].shown[1].organizationName = Spelled(calls[k].name[1])

(***************************************************************************)
(* Signature Extractor: specification ExtractSpec and its properties.      *)
(***************************************************************************)
\* the backend is not used while a text is parsed
BackendIdle ==
    /\ configured = FALSE
    /\ user = Null
    /\ organizations = <<Acme("verified"), Tech("verified")>>
    /\ organization_wallets = <<>>
    /\ verified_messages = <<>>
    /\ message_verification_attempts = <<>>

ExtractStart == ExtractInit /\ BackendIdle /\ PipeInit /\ SyncIdle /\ ContextIdle

ExtractNext ==
    \/ GenerateTestSMSFixed
    \/ GenerateTestSMS
    \/ ParseService
    \/ ParseSMS

ExtractSpec == ExtractStart /\ [][ExtractNext]_vars

(***************************************************************************)
(* What the properties of the extractor compare its results with.          *)
(***************************************************************************)
\* the recognized tags a text of SmsTexts can hold, and the signature each
\* stands for, in the order of SMSService.signaturePatterns
KnownTags ==
    << TagSIG(64), TagSIGNATURE(64), TagWEB3SIG(128), TagDID(64), TagETH(130) >>
KnownPayloads ==
    << Rep("a", 64), Rep("Q", 63) \o <<"=">>, <<"0", "x">> \o Rep("b", 128),
       Rep("c", 64), <<"0", "x">> \o Rep("d", 130) >>

\* the places <<i, k>> of the text where the k-th recognized tag stands
TagOccurrences(s) ==
    { o \in (1..Len(s)) \X (1..Len(KnownTags)) :
        /\ s[o[1]] = "["
        /\ o[1] + Len(KnownTags[o[2]]) - 1 <= Len(s)
        /\ SubSeq(s, o[1], o[1] + Len(KnownTags[o[2]]) - 1) = KnownTags[o[2]] }

\* the text without the tag that stands at o
Without(s, o) ==
    SubSeq(s, 1, o[1] - 1) \o SubSeq(s, o[1] + Len(KnownTags[o[2]]), Len(s))

\* s.replace(/\s+/g, ' ').trim(), as cleanMessageContent collapses whitespace
collapse(s) ==
    The({ trim([j \in 1..Len(kept) |->
                   IF kept[j][1] \in Whitespace THEN " " ELSE kept[j][1]])
          : kept \in { SelectSeq([j \in 1..Len(s) |->
                                     <<s[j], j > 1 /\ s[j - 1] \in Whitespace>>],
                                 LAMBDA m : ~(m[1] \in Whitespace /\ m[2])) } })

\* the text without its whitespace
withoutWhitespace(s) == SelectSeq(s, LAMBDA c : c \notin Whitespace)

\* C11 as stated: for a text with exactly one recognized tag both parsers
\* return the tag's payload as the signature, and as the content the text
\* without the tag with its whitespace collapsed.
C11_ContentCollapsed ==
    \A o \in TagOccurrences(smsText) :
        (composed = Null /\ TagOccurrences(smsText) = {o}) =>
            /\ parsedSms # Null =>
                   /\ parsedSms[1].signature = Some(KnownPayloads[o[2]])
                   /\ parsedSms[1].extractedContent = collapse(Without(smsText, o))
            /\ parsedSvc # Null =>
                   /\ parsedSvc[1].signature = KnownPayloads[o[2]]
                   /\ parsedSvc[1].content = collapse(Without(smsText, o))

\* C11 as amended: for a text with exactly one recognized tag both parsers
\* return the tag's payload as the signature, and as the content the text
\* without the tag with the whitespace at its two ends trimmed; whitespace
\* inside the content stays as it is.
C11_ContentTrimmed ==
    \A o \in TagOccurrences(smsText) :
        (composed = Null /\ TagOccurrences(smsText) = {o}) =>
            /\ parsedSms # Null =>
                   /\ parsedSms[1].signature = Some(KnownPayloads[o[2]])
                   /\ parsedSms[1].extractedContent = trim(Without(smsText, o))
                   /\ parsedSms[1].signatureBlock = Some(KnownTags[o[2]])
            /\ parsedSvc # Null =>
                   /\ parsedSvc[1].signature = KnownPayloads[o[2]]
                   /\ parsedSvc[1].content = trim(Without(smsText, o))

\* both parsers have returned for a text whose only tag, a WEB3SIG tag,
\* stands between two words: the content keeps two spaces between them
C11_Witness ==
    /\ composed = Null
    /\ parsedSms # Null /\ parsedSvc # Null
    /\ smsText = Padded \o TagWEB3SIG(128) \o Padded
    /\ TagOccurrences(smsText) = {<<5, 3>>}
    /\ parsedSms[1].extractedContent = <<"h", "i", " ", " ", "h", "i">>
    /\ parsedSms[1].signature = Some(<<"0", "x">> \o Rep("b", 128))

\* C12: for a text with no recognized tag (no tag at all, or only tags
\* whose payload has not the length its pattern asks for) both parsers
\* return no signature and a content that is, whitespace apart, the text.
C12_NoTagNoSignature ==
    (composed = Null /\ TagOccurrences(smsText) = {}) =>
        /\ parsedSms # Null =>
               /\ parsedSms[1].signature = Null
               /\ parsedSms[1].signatureBlock = Null
               /\ withoutWhitespace(parsedSms[1].extractedContent)
                      = withoutWhitespace(smsText)
        /\ parsedSvc # Null =>
               /\ parsedSvc[1].signature = <<>>
               /\ withoutWhitespace(parsedSvc[1].content)
                      = withoutWhitespace(smsText)

\* both parsers have returned for a text that holds a SIG tag of 63
\* characters between whitespace and nothing they recognize
C12_Witness ==
    /\ composed = Null
    /\ parsedSms # Null /\ parsedSvc # Null
    /\ smsText = Padded \o TagSIG(63) \o Space
    /\ TagOccurrences(smsText) = {}
    /\ parsedSms[1].signature = Null
    /\ parsedSms[1].extractedContent = smsText

\* a message of plain words: not empty, no bracket, no whitespace at its ends
Plain(message) ==
    /\ message # <<>>
    /\ trim(message) = message
    /\ \A j \in 1..Len(message) : message[j] \notin {"[", "]"}

\* the shape of the signature the extractor returns for a signature type
Shape(signatureType, sig) ==
    CASE signatureType = "hex" ->
             Len(sig) >= 64 /\ \A j \in 1..Len(sig) : sig[j] \in HexClass
      [] signatureType = "base64" ->
             Len(sig) >= 64 /\ \A j \in 1..Len(sig) : sig[j] \in Base64Class
      [] signatureType = "web3" ->
             /\ Len(sig) >= 130 /\ SubSeq(sig, 1, 2) = <<"0", "x">>
             /\ \A j \in 3..Len(sig) : sig[j] \in HexClass
      [] signatureType = "ethereum" ->
             /\ Len(sig) = 132 /\ SubSeq(sig, 1, 2) = <<"0", "x">>
             /\ \A j \in 3..Len(sig) : sig[j] \in HexClass

\* C13: for a plain message and each of the four signature types, parsing
\* the text generateTestSMS(message, type) composed gives the message back
\* as the content and a signature of the shape of the type.
C13_GenerateThenParse ==
    (composed # Null /\ parsedSms # Null) =>
        (Plain(composed[1].message) =>
            /\ parsedSms[1].extractedContent = composed[1].message
            /\ parsedSms[1].signature # Null
            /\ Shape(composed[1].type, parsedSms[1].signature[1]))

\* C10: whichever parser is applied, the signature returned for a text that
\* contains valid tags is the payload of the tag that comes first in the
\* order SIG, SIGNATURE, WEB3SIG, DID, ETH, wherever the tags stand.
C10_FirstTagInPriorityOrderWins ==
    LET tags == << TagSIG(64), TagSIGNATURE(64), TagWEB3SIG(128), TagDID(64),
                   TagETH(130) >>
        payloads == << Rep("a", 64),
                       Rep("Q", 63) \o <<"=">>,
                       <<"0", "x">> \o Rep("b", 128),
                       Rep("c", 64),
                       <<"0", "x">> \o Rep("d", 130) >>
        present == {k \in 1..5 :
                      \E i \in 1..(Len(smsText) - Len(tags[k]) + 1) :
                          /\ smsText[i] = "["
                          /\ SubSeq(smsText, i, i + Len(tags[k]) - 1) = tags[k]}
        first == CHOOSE k \in present : \A j \in present : k <= j
    IN  present # {} =>
            /\ parsedSvc # Null => parsedSvc[1].signature = payloads[first]
            /\ parsedSms # Null => parsedSms[1].signature = Some(payloads[first])

====
